---- MODULE Spec2Model ----
(***************************************************************************)
(* A model of src/browser-performance-test.js: the readiness prober         *)
(* (waitForServer), the page-load measurer (measurePagePerformance), the    *)
(* navigation measurer (measureNavigationPerformance), the comparison and   *)
(* the persister (saveResults), as run by runBrowserPerformanceTest.        *)
(*                                                                          *)
(* Every await of the source is one action; what follows an await up to the *)
(* next one is part of the action that completes it.  The two applications  *)
(* of CONFIG.apps run as interleaved processes wherever the source joins    *)
(* them with Promise.all.  Results of the browser, the servers and the      *)
(* clock are chosen with \E from small sets.  JavaScript numbers are        *)
(* modelled exactly: a mean is a reduced fraction [n, d].                   *)
(* Fields of the metrics that only feed the console (domContentLoaded,      *)
(* loadComplete, domInteractive) are left out.                              *)
(***************************************************************************)
EXTENDS Integers, Sequences, FiniteSets, Bags, TLC

\* ------------------------------------------------------------------ bounds
\* Runs of the program on one file system.
MaxRuns == 3
\* Callbacks of the paint observers the model delivers in one page.evaluate.
MaxPaintEvents == 3
\* CONFIG.retries.serverCheck is 30 in the source; the model tries fewer times.
MaxRetries == 2
\* CONFIG.iterations is 3 in the source; the model runs fewer trials.
Iterations == 2
\* Responses one page may receive while the model watches it.
MaxResponses == 2
\* CONFIG.maxHealthChecks is 30 in scripts/performance-full.js; the model checks
\* the health of a server fewer times.
MaxHealthChecks == 2
\* Metrics of a route for which the analysis of an app holds a mean.
MaxMeasured == 2

\* ------------------------------------------------------------------ CONFIG
RR == "React Router"
TS == "TanStack Router"
Apps == {RR, TS}

\* JavaScript's null: a record, so that it compares with any record.
NULL == [null |-> TRUE]
\* The empty object {}: truthy, unlike null.
EMPTY == [empty |-> TRUE]

\* ------------------------------------------------------------------ state
VARIABLES
    mainPc,          \* where runBrowserPerformanceTest stands
    exitCode,        \* "none" while the process runs, then "0" or "1"
    probe,           \* [Apps -> the frame of waitForServer(app.url)]
    sess,            \* [Apps -> the frame of measurePagePerformance(app)]
    nav,             \* [Apps -> the frame of measureNavigationPerformance(app)]
    metrics,         \* reactRouterMetrics, tanstackRouterMetrics
    navTime,         \* reactRouterNav, tanstackRouterNav
    console,         \* what displayResults announced
    performanceData, \* the report object built by runBrowserPerformanceTest
    fs,              \* the files under performance-results/
    writes,          \* the paths written, in order
    timestamp,       \* the timestamp local of saveResults
    net,             \* the environment: the responses a server may send, what the
                     \* paint observers of a page may see, the navigation times
                     \* the clock may give, and whether the history of selector
                     \* timeouts and errors is kept
    timing,          \* one evaluation of the navigation-timing record in a page
    vitals,          \* one evaluation of the paint observers in a page
    saves,           \* the saveResults calls completed on this file system
    full,            \* the run of main of scripts/performance-full.js
    analysis         \* one analysis of benchmark results: the means of a route,
                     \* its comparison and the summary displayAnalysis prints

vars == <<mainPc, exitCode, probe, sess, nav, metrics, navTime, console,
          performanceData, fs, writes, timestamp, net, timing, vitals, saves, full, analysis>>

Running == exitCode = "none"

\* ------------------------------------------------------------------ waitForServer
\* What one client.get attempt can end with: a response of any status, a
\* connection error, or the request timeout.
AttemptOutcomes ==
    {[kind |-> "response", status |-> s] : s \in {200, 404, 500}}
        \cup {[kind |-> "error", status |-> 0], [kind |-> "timeout", status |-> 0]}

NoOutcome == [kind |-> "none", status |-> 0]

\* Mutant of AttemptResolves: only a success status counts as ready.
AttemptResolves_OnlyOk(o) == o.kind = "response" /\ o.status < 400

\* The callback of client.get resolves on any response; "error" and "timeout" reject.
AttemptResolves(o) == o.kind = "response"

ProbeStart(n) ==
    [pc |-> "attempt", maxRetries |-> n, i |-> 0, last |-> NoOutcome,
     attempts |-> 0, failures |-> 0, delays |-> 0]

\* The fulfilled promise of a call has been consumed by Promise.all.
ProbeDone == [ProbeStart(0) EXCEPT !.pc = "done"]

\* Mutant of LastRetry: the test is off by one.
LastRetry_OffByOne(p) == p.i = p.maxRetries

\* if (i === maxRetries - 1)
LastRetry(p) == p.i = p.maxRetries - 1

\* The loop test, then one iteration of the for loop: the request, then return
\* true or the catch block.  A loop that ends without returning yields undefined.
WaitForServer_Attempt(a) ==
    /\ Running
    /\ probe[a].pc = "attempt"
    /\ IF probe[a].i < probe[a].maxRetries
       THEN \E o \in AttemptOutcomes :
              LET p == [probe[a] EXCEPT !.last = o, !.attempts = @ + 1] IN
              probe' = [probe EXCEPT ![a] =
                  IF AttemptResolves(o)
                  THEN [p EXCEPT !.pc = "ready"]
                  ELSE IF LastRetry(p)
                       THEN [p EXCEPT !.pc = "failed", !.failures = @ + 1]
                       ELSE [p EXCEPT !.pc = "delay", !.failures = @ + 1]]
       ELSE probe' = [probe EXCEPT ![a].pc = "undefined"]
    /\ UNCHANGED <<mainPc, exitCode, sess, nav, metrics, navTime, console,
                   performanceData, fs, writes, timestamp, net, timing, vitals, saves, full, analysis>>

\* setTimeout(resolve, retryDelay) fires; the loop goes to its next iteration.
WaitForServer_Delay(a) ==
    /\ Running
    /\ probe[a].pc = "delay"
    /\ probe' = [probe EXCEPT ![a] =
                    [@ EXCEPT !.pc = "attempt", !.i = @ + 1, !.delays = @ + 1]]
    /\ UNCHANGED <<mainPc, exitCode, sess, nav, metrics, navTime, console,
                   performanceData, fs, writes, timestamp, net, timing, vitals, saves, full, analysis>>

\* ------------------------------------------------------------------ numbers
RECURSIVE Gcd(_, _)
Gcd(x, y) == IF y = 0 THEN x ELSE Gcd(y, x % y)

Abs(x) == IF x < 0 THEN -x ELSE x

\* Mutant of Rat: the division is an integer division.
Rat_Floor(n, d) == [n |-> n \div d, d |-> 1]

\* The number n / d (d > 0) as a reduced fraction.
Rat(n, d) ==
    LET g == Gcd(Abs(n), d) IN
    IF n = 0 THEN [n |-> 0, d |-> 1] ELSE [n |-> n \div g, d |-> d \div g]

RatInt(k) == [n |-> k, d |-> 1]
RatLess(x, y) == x.n * y.d < y.n * x.d
RatSub(x, y) == Rat(x.n * y.d - y.n * x.d, x.d * y.d)
RatAbs(x) == [n |-> Abs(x.n), d |-> x.d]

\* Mutant of MathRound: the quotient is truncated (Math.floor).
MathRound_Floor(sum, count) == sum \div count

\* Math.round of sum / count for a sum >= 0: halves round up.
MathRound(sum, count) == (2 * sum + count) \div (2 * count)

RECURSIVE SumOver(_, _)
\* results.reduce((sum, r) => sum + r[f], 0)
SumOver(results, f) ==
    IF results = <<>> THEN 0
    ELSE results[1][f] + SumOver(Tail(results), f)

\* ------------------------------------------------------------------ navigation timing
\* A number of the page, or undefined: a record, so that the two compare.
UNDEFINED == [undefined |-> TRUE]
Num(k) == [value |-> k]

\* The fields of the navigation entry the first page.evaluate reads.
TimingValues == {UNDEFINED, Num(-1), Num(0), Num(700), Num(1200)}
PerfEntries ==
    [duration : TimingValues, loadEventEnd : TimingValues,
     domContentLoadedEventEnd : TimingValues, navigationStart : TimingValues]

\* !x for a number or undefined
Not(x) == x = UNDEFINED \/ x = Num(0)

\* a || b for numbers
OrElse(a, b) == IF a # 0 THEN a ELSE b

\* const safeValue = (value) => value && value > 0 ? value : 0
SafeValue(value) == IF ~Not(value) /\ value.value > 0 THEN value.value ELSE 0

\* if (!end || !start || end <= 0 || start <= 0) return 0; return end - start;
SafeDuration(end, start) ==
    IF Not(end) \/ Not(start) \/ end.value <= 0 \/ start.value <= 0 THEN 0
    ELSE end.value - start.value

\* totalLoadTime of the object the first page.evaluate returns
EvalTotalLoadTime(perfData) ==
    OrElse(SafeValue(perfData.duration),
           OrElse(SafeDuration(perfData.loadEventEnd, perfData.navigationStart),
                  SafeDuration(perfData.domContentLoadedEventEnd,
                               perfData.navigationStart)))

\* totalLoadTime: performanceData.totalLoadTime || actualLoadTime
RecordedTotalLoadTime(perfTotal, actualLoadTime) == OrElse(perfTotal, actualLoadTime)

TimingIdle ==
    [pc |-> "idle", perfData |-> UNDEFINED, actualLoadTime |-> 0,
     perfTotal |-> 0, totalLoadTime |-> 0]

TimingUnchanged ==
    UNCHANGED <<mainPc, exitCode, probe, sess, nav, metrics, navTime, console,
                performanceData, fs, writes, timestamp, net, vitals, saves, full, analysis>>

\* const performanceData = await page.evaluate(...): the page computes
\* totalLoadTime from its navigation entry.
Timing_Evaluate ==
    /\ timing.pc = "evaluate"
    /\ timing' = [timing EXCEPT !.perfTotal = EvalTotalLoadTime(timing.perfData),
                                !.pc = "record"]
    /\ TimingUnchanged

\* performanceMetrics = {..., totalLoadTime: performanceData.totalLoadTime || actualLoadTime}
Timing_Record ==
    /\ timing.pc = "record"
    /\ timing' = [timing EXCEPT
                     !.totalLoadTime =
                         RecordedTotalLoadTime(timing.perfTotal, timing.actualLoadTime),
                     !.pc = "recorded"]
    /\ TimingUnchanged

\* ------------------------------------------------------------------ measurePagePerformance
\* Network.responseReceived events: the mimeType and encodedDataLength of a response.
JsBundle == [mimeType |-> "application/javascript", encodedDataLength |-> 1]
StyleSheet == [mimeType |-> "text/css", encodedDataLength |-> 2]
Document == [mimeType |-> "text/html", encodedDataLength |-> 4]
Responses == {JsBundle, StyleSheet, Document}

\* mimeType.includes("javascript"), mimeType.includes("css")
IncludesJavascript(m) == m \in {"application/javascript", "text/javascript"}
IncludesCss(m) == m \in {"text/css"}

\* performanceData.totalLoadTime as page.evaluate returns it: 0 when every
\* navigation-timing candidate was unusable.
PerfTotals == {0, 4934}
\* Date.now() - startTime
ActualLoadTimes == {5627}

\* lcp || 0, fcp || 0: the value, or 0 for undefined (and for 0).
OrZero(x) == IF x = UNDEFINED THEN 0 ELSE x.value

\* resolve({largestContentfulPaint: lcp, firstContentfulPaint: fcp}) of resolveIfReady
ReadyResult(lcp, fcp) ==
    [largestContentfulPaint |-> lcp.value, firstContentfulPaint |-> fcp.value]

\* resolve({largestContentfulPaint: lcp || 0, firstContentfulPaint: fcp || 0}) of
\* the timer
TimeoutResult(lcp, fcp) ==
    [largestContentfulPaint |-> OrZero(lcp), firstContentfulPaint |-> OrZero(fcp)]

\* The startTime of the paint entries a page may report, in ms.
FcpTimes == {800}
LcpTimes == {1200, 1500}

\* What the two observers of a page had seen when the promise of the second
\* page.evaluate was resolved.
BothPaints == [lcp |-> [value |-> 1200], fcp |-> [value |-> 800]]
OnlyFcp == [lcp |-> UNDEFINED, fcp |-> [value |-> 800]]

\* The webVitals object page.evaluate resolves to.
WebVitals(seen) ==
    IF seen.lcp # UNDEFINED /\ seen.fcp # UNDEFINED
    THEN ReadyResult(seen.lcp, seen.fcp)
    ELSE TimeoutResult(seen.lcp, seen.fcp)

\* The promise of the second page.evaluate in the page: let lcp; let fcp; the value
\* the promise was resolved with (null while pending) and the 15000 ms timer.
\* fixedBy and seen record who resolved the promise and what lcp and fcp were then.
VitalsIdle ==
    [pc |-> "idle", lcp |-> UNDEFINED, fcp |-> UNDEFINED, resolved |-> NULL,
     timer |-> "none", callbacks |-> 0, warned |-> FALSE,
     fixedBy |-> "none", seen |-> [lcp |-> UNDEFINED, fcp |-> UNDEFINED]]

\* The executor has run: both observers observe and the timer is set.
VitalsStart == [VitalsIdle EXCEPT !.pc = "observing", !.timer = "pending"]

\* Mutant of Resolve: a later resolve replaces the value of the promise.
Resolve_Overwrites(current, value) == value

\* resolve(value): a promise is settled by the first call only.
Resolve(current, value) == IF current = NULL THEN value ELSE current

\* const resolveIfReady = () => { if (lcp !== undefined && fcp !== undefined) resolve(...) }
ResolveIfReady(v) ==
    IF v.lcp # UNDEFINED /\ v.fcp # UNDEFINED
    THEN [v EXCEPT !.resolved = Resolve(@, ReadyResult(v.lcp, v.fcp))]
    ELSE v

\* The step from v to w settled the promise: who did it and what had been seen.
Fixed(v, w, by) ==
    IF v.resolved = NULL /\ w.resolved # NULL
    THEN [w EXCEPT !.fixedBy = by, !.seen = [lcp |-> w.lcp, fcp |-> w.fcp]]
    ELSE w

VitalsUnchanged ==
    UNCHANGED <<mainPc, exitCode, probe, sess, nav, metrics, navTime, console,
                performanceData, fs, writes, timestamp, net, timing, saves, full, analysis>>

\* The callback of the first-contentful-paint observer, with a non-empty list.
Vitals_Fcp ==
    /\ vitals.pc = "observing"
    /\ vitals.callbacks < MaxPaintEvents
    /\ \E t \in FcpTimes :
          LET v == [vitals EXCEPT !.fcp = Num(t), !.callbacks = @ + 1] IN
          vitals' = Fixed(vitals, ResolveIfReady(v), "observers")
    /\ VitalsUnchanged

\* The callback of the largest-contentful-paint observer: the last entry counts.
Vitals_Lcp ==
    /\ vitals.pc = "observing"
    /\ vitals.callbacks < MaxPaintEvents
    /\ \E t \in LcpTimes :
          LET v == [vitals EXCEPT !.lcp = Num(t), !.callbacks = @ + 1] IN
          vitals' = Fixed(vitals, ResolveIfReady(v), "observers")
    /\ VitalsUnchanged

\* The callback of setTimeout(..., 15000): the warning if a metric is missing,
\* then resolve with what was captured.
Vitals_Timer ==
    /\ vitals.pc = "observing"
    /\ vitals.timer = "pending"
    /\ LET v == [vitals EXCEPT
                   !.timer = "fired",
                   !.warned = vitals.lcp = UNDEFINED \/ vitals.fcp = UNDEFINED,
                   !.resolved = Resolve(@, TimeoutResult(vitals.lcp, vitals.fcp))]
       IN vitals' = Fixed(vitals, v, "timer")
    /\ VitalsUnchanged

\* The accumulators of a trial.  networkRequests stands for the array of that
\* name, of which the source reads only the length.
ZeroAcc == [networkRequests |-> 0, totalTransferSize |-> 0, jsSize |-> 0, cssSize |-> 0]

SessIdle ==
    [pc |-> "idle", iterations |-> 0, i |-> 0, results |-> <<>>,
     browser |-> "none", page |-> "none",
     acc |-> ZeroAcc, perfTotal |-> 0, actualLoadTime |-> 0,
     performanceMetrics |-> EMPTY, ret |-> NULL,
     \* the environment's side of the current page: the bag of responses delivered
     sent |-> EmptyBag,
     \* history: trials started, trials whose try block completed, and what the
     \* page of each such trial had received when its metrics were captured
     started |-> 0, succeeded |-> 0, truth |-> <<>>,
     \* history kept when net.trace holds: the trials whose selector wait timed
     \* out, and the number of errors raised by the steps of the session
     timeouts |-> {}, errors |-> 0]

SessStart(n) == [SessIdle EXCEPT !.pc = "launch", !.iterations = n]

SessDone == [SessIdle EXCEPT !.pc = "done"]

\* for (let i = 0; i < iterations; i++): the body starts with browser.newPage().
LoopHead(s) == IF s.i < s.iterations THEN "newPage" ELSE "closeBrowser"

\* Mutant of TrialAccInit: the accumulators are declared outside the loop.
TrialAccInit_Leak(s) == s.acc

\* let networkRequests = []; let totalTransferSize = 0; let jsSize = 0; let cssSize = 0;
TrialAccInit(s) == ZeroAcc

\* Mutant of OnResponse: the total is added to in the two MIME branches only.
OnResponse_OnlyBucketed(acc, r) ==
    [networkRequests |-> acc.networkRequests + 1,
     totalTransferSize |-> IF IncludesJavascript(r.mimeType) \/ IncludesCss(r.mimeType)
                           THEN acc.totalTransferSize + r.encodedDataLength
                           ELSE acc.totalTransferSize,
     jsSize |-> IF IncludesJavascript(r.mimeType)
                THEN acc.jsSize + r.encodedDataLength ELSE acc.jsSize,
     cssSize |-> IF ~IncludesJavascript(r.mimeType) /\ IncludesCss(r.mimeType)
                 THEN acc.cssSize + r.encodedDataLength ELSE acc.cssSize]

\* The Network.responseReceived listener.
OnResponse(acc, r) ==
    [networkRequests |-> acc.networkRequests + 1,
     totalTransferSize |-> acc.totalTransferSize + r.encodedDataLength,
     jsSize |-> IF IncludesJavascript(r.mimeType)
                THEN acc.jsSize + r.encodedDataLength ELSE acc.jsSize,
     cssSize |-> IF ~IncludesJavascript(r.mimeType) /\ IncludesCss(r.mimeType)
                 THEN acc.cssSize + r.encodedDataLength ELSE acc.cssSize]

RECURSIVE BytesOf(_, _)
\* The bytes of the responses of a bag that are of the given kinds.
BytesOf(sent, kinds) ==
    IF kinds = {} THEN 0
    ELSE LET r == CHOOSE x \in kinds : TRUE IN
         CopiesIn(r, sent) * r.encodedDataLength + BytesOf(sent, kinds \ {r})

\* What a page has received so far, counted from the delivered responses.
Snapshot(sent) ==
    [requests |-> BagCardinality(sent),
     bytes |-> BytesOf(sent, Responses),
     js |-> BytesOf(sent, {r \in Responses : IncludesJavascript(r.mimeType)}),
     css |-> BytesOf(sent, {r \in Responses :
                              IncludesCss(r.mimeType) /\ ~IncludesJavascript(r.mimeType)})]

\* What the page of a trial had received and painted when its metrics were
\* captured, and whether its selector wait had timed out.
Observed(s, seen) ==
    [requests |-> Snapshot(s.sent).requests, bytes |-> Snapshot(s.sent).bytes,
     js |-> Snapshot(s.sent).js, css |-> Snapshot(s.sent).css,
     lcp |-> seen.lcp, fcp |-> seen.fcp,
     trial |-> s.i + 1, graced |-> (s.i + 1) \in s.timeouts]

\* performanceMetrics = {...performanceData, ...webVitals, totalLoadTime: ..., ...}
Capture(s, webVitals) ==
    [largestContentfulPaint |-> webVitals.largestContentfulPaint,
     firstContentfulPaint |-> webVitals.firstContentfulPaint,
     totalLoadTime |-> RecordedTotalLoadTime(s.perfTotal, s.actualLoadTime),
     actualLoadTime |-> s.actualLoadTime,
     networkRequests |-> s.acc.networkRequests,
     totalTransferSize |-> s.acc.totalTransferSize,
     jsSize |-> s.acc.jsSize,
     cssSize |-> s.acc.cssSize]

\* The averages of measurePagePerformance.
Aggregate(results) ==
    LET n == Len(results) IN
    [firstContentfulPaint |-> Rat(SumOver(results, "firstContentfulPaint"), n),
     largestContentfulPaint |-> Rat(SumOver(results, "largestContentfulPaint"), n),
     totalLoadTime |-> Rat(SumOver(results, "totalLoadTime"), n),
     networkRequests |-> MathRound(SumOver(results, "networkRequests"), n),
     totalTransferSize |-> MathRound(SumOver(results, "totalTransferSize"), n),
     jsSize |-> MathRound(SumOver(results, "jsSize"), n),
     cssSize |-> MathRound(SumOver(results, "cssSize"), n),
     iterations |-> n,
     rawResults |-> results]

\* Mutant of ReturnValue: iterations reports the trials asked for.
ReturnValue_Asked(s) ==
    IF s.results = <<>> THEN NULL
    ELSE [Aggregate(s.results) EXCEPT !.iterations = s.iterations]

\* if (results.length === 0) return null; ... return avgMetrics;
ReturnValue(s) == IF s.results = <<>> THEN NULL ELSE Aggregate(s.results)

\* An error leaves measurePagePerformance: its locals are gone, the browser and the
\* page stay as they were.
Throw(s) ==
    [SessIdle EXCEPT !.pc = "thrown", !.iterations = s.iterations,
                     !.browser = s.browser, !.page = s.page,
                     !.started = s.started, !.succeeded = s.succeeded,
                     !.timeouts = s.timeouts,
                     !.errors = IF net.trace THEN s.errors + 1 ELSE s.errors]

\* The catch block of a trial: performanceMetrics = null, then page.close() is called.
TrialCatch(s) ==
    [s EXCEPT !.performanceMetrics = NULL, !.pc = "closePage",
              !.errors = IF net.trace THEN @ + 1 ELSE @]

\* Mutant of SelectorCatch: the timeout of the selector wait is not caught by the
\* inner try and reaches the catch block of the trial.
SelectorCatch_Fails(s) == TrialCatch(s)

\* catch (selectorError): the warning is logged and the 2000 ms wait begins.
SelectorCatch(s) ==
    [s EXCEPT !.pc = "grace",
              !.timeouts = IF net.trace THEN @ \cup {s.i + 1} ELSE @]

SessUnchanged == UNCHANGED <<mainPc, exitCode, probe, nav, metrics, navTime, console,
                             performanceData, fs, writes, timestamp, net, timing, vitals, saves, full, analysis>>

\* await puppeteer.launch(...), then the loop test
MPP_Launch(a) ==
    /\ Running
    /\ sess[a].pc = "launch"
    /\ \/ sess' = [sess EXCEPT ![a] =
                      [@ EXCEPT !.browser = "open", !.pc = LoopHead(sess[a])]]
       \/ sess' = [sess EXCEPT ![a] = Throw(sess[a])]
    /\ SessUnchanged

\* await browser.newPage()
MPP_NewPage(a) ==
    /\ Running
    /\ sess[a].pc = "newPage"
    /\ \/ sess' = [sess EXCEPT ![a] =
                      [@ EXCEPT !.page = "open", !.sent = EmptyBag,
                                !.started = @ + 1, !.pc = "setCacheEnabled"]]
       \/ sess' = [sess EXCEPT ![a] = Throw([sess[a] EXCEPT !.started = @ + 1])]
    /\ SessUnchanged

\* await page.setCacheEnabled(false)
MPP_SetCacheEnabled(a) ==
    /\ Running
    /\ sess[a].pc = "setCacheEnabled"
    /\ \/ sess' = [sess EXCEPT ![a].pc = "createCDPSession"]
       \/ sess' = [sess EXCEPT ![a] = Throw(sess[a])]
    /\ SessUnchanged

\* await page.target().createCDPSession()
MPP_CreateCDPSession(a) ==
    /\ Running
    /\ sess[a].pc = "createCDPSession"
    /\ \/ sess' = [sess EXCEPT ![a].pc = "networkEnable"]
       \/ sess' = [sess EXCEPT ![a] = Throw(sess[a])]
    /\ SessUnchanged

\* await client.send("Network.enable")
MPP_NetworkEnable(a) ==
    /\ Running
    /\ sess[a].pc = "networkEnable"
    /\ \/ sess' = [sess EXCEPT ![a].pc = "performanceEnable"]
       \/ sess' = [sess EXCEPT ![a] = Throw(sess[a])]
    /\ SessUnchanged

\* await client.send("Performance.enable"); then the accumulators are declared,
\* the listener is attached, startTime is read and page.goto is called.
MPP_PerformanceEnable(a) ==
    /\ Running
    /\ sess[a].pc = "performanceEnable"
    /\ \/ sess' = [sess EXCEPT ![a] =
                      [@ EXCEPT !.acc = TrialAccInit(sess[a]),
                                !.performanceMetrics = EMPTY,
                                !.perfTotal = 0, !.actualLoadTime = 0,
                                !.pc = "goto"]]
       \/ sess' = [sess EXCEPT ![a] = Throw(sess[a])]
    /\ SessUnchanged

\* The pages whose navigation has been issued: responses may arrive on them.
Navigated == {"goto", "waitForSelector", "grace", "evalTiming", "evalVitals", "closePage"}

\* Mutant of Deliver: performanceMetrics holds the live accumulators, not copies
\* of their values.
Deliver_Live(ss, a, r) ==
    [ss EXCEPT ![a] =
        [@ EXCEPT !.acc = OnResponse(ss[a].acc, r),
                  !.sent = @ (+) SetToBag({r}),
                  !.performanceMetrics =
                      IF @ # NULL /\ @ # EMPTY
                      THEN [@ EXCEPT !.networkRequests = @ + 1,
                                     !.totalTransferSize = @ + r.encodedDataLength]
                      ELSE @]]

\* Mutant of Deliver: the accumulators are module-level variables, shared by the
\* sessions of the two apps.
Deliver_Shared(ss, a, r) ==
    [b \in Apps |->
        IF b = a
        THEN [ss[b] EXCEPT !.acc = OnResponse(ss[b].acc, r),
                           !.sent = @ (+) SetToBag({r})]
        ELSE IF ss[b].pc \in Navigated /\ ss[b].page = "open"
             THEN [ss[b] EXCEPT !.acc = OnResponse(ss[b].acc, r)]
             ELSE ss[b]]

\* The listener closes over the accumulators of its own trial: a response on the
\* page of app a changes the frame of a only.
Deliver(ss, a, r) ==
    [ss EXCEPT ![a] = [@ EXCEPT !.acc = OnResponse(ss[a].acc, r),
                                !.sent = @ (+) SetToBag({r})]]

\* A response arrives on the page of the running trial: the listener runs.
MPP_ResponseReceived(a) ==
    /\ Running
    /\ sess[a].pc \in Navigated
    /\ sess[a].page = "open"
    /\ BagCardinality(sess[a].sent) < net.cap
    /\ \E r \in net.kinds : sess' = Deliver(sess, a, r)
    /\ SessUnchanged

\* await page.goto(url, {waitUntil: "domcontentloaded", timeout: pageLoad})
MPP_Goto(a) ==
    /\ Running
    /\ sess[a].pc = "goto"
    /\ \/ sess' = [sess EXCEPT ![a].pc = "waitForSelector"]
       \/ sess' = [sess EXCEPT ![a] = TrialCatch(sess[a])]
    /\ SessUnchanged

\* await page.waitForSelector(postsPageSelector, {timeout: 10000, visible: true});
\* found: actualLoadTime is read and page.evaluate is called; timed out: the
\* warning is logged and the 2000 ms wait begins.
MPP_WaitForSelector(a) ==
    /\ Running
    /\ sess[a].pc = "waitForSelector"
    /\ \/ \E t \in ActualLoadTimes :
            sess' = [sess EXCEPT ![a] =
                        [@ EXCEPT !.actualLoadTime = t, !.pc = "evalTiming"]]
       \/ sess' = [sess EXCEPT ![a] = SelectorCatch(sess[a])]
    /\ SessUnchanged

\* await new Promise((resolve) => setTimeout(resolve, 2000))
MPP_Grace(a) ==
    /\ Running
    /\ sess[a].pc = "grace"
    /\ \E t \in ActualLoadTimes :
          sess' = [sess EXCEPT ![a] =
                      [@ EXCEPT !.actualLoadTime = t, !.pc = "evalTiming"]]
    /\ SessUnchanged

\* const performanceData = await page.evaluate(...)
MPP_EvalTiming(a) ==
    /\ Running
    /\ sess[a].pc = "evalTiming"
    /\ \/ \E t \in PerfTotals :
            sess' = [sess EXCEPT ![a] =
                        [@ EXCEPT !.perfTotal = t, !.pc = "evalVitals"]]
       \/ sess' = [sess EXCEPT ![a] = TrialCatch(sess[a])]
    /\ SessUnchanged

\* const webVitals = await page.evaluate(...); then performanceMetrics is built
\* and page.close() is called.
MPP_EvalVitals(a) ==
    /\ Running
    /\ sess[a].pc = "evalVitals"
    /\ \/ \E seen \in net.vitals :
            sess' = [sess EXCEPT ![a] =
                        [@ EXCEPT !.performanceMetrics = Capture(sess[a], WebVitals(seen)),
                                  !.succeeded = @ + 1,
                                  !.truth = Append(@, Observed(sess[a], seen)),
                                  !.pc = "closePage"]]
       \/ sess' = [sess EXCEPT ![a] = TrialCatch(sess[a])]
    /\ SessUnchanged

\* Mutant of Pushed: a trial whose selector wait timed out is not recorded.
Pushed_OnlyClean(s) ==
    IF s.performanceMetrics # NULL /\ (s.i + 1) \notin s.timeouts
    THEN Append(s.results, s.performanceMetrics) ELSE s.results

\* if (performanceMetrics) { results.push(performanceMetrics); }
Pushed(s) ==
    IF s.performanceMetrics # NULL
    THEN Append(s.results, s.performanceMetrics) ELSE s.results

\* await page.close(); if (performanceMetrics) results.push(performanceMetrics);
\* i++ and the loop test.
MPP_ClosePage(a) ==
    /\ Running
    /\ sess[a].pc = "closePage"
    /\ \/ LET s == sess[a]
              t == [s EXCEPT !.page = "closed", !.sent = EmptyBag,
                             !.results = Pushed(s),
                             !.performanceMetrics = EMPTY,
                             !.perfTotal = 0, !.actualLoadTime = 0,
                             !.i = @ + 1]
          IN sess' = [sess EXCEPT ![a] = [t EXCEPT !.pc = LoopHead(t)]]
       \/ sess' = [sess EXCEPT ![a] = Throw(sess[a])]
    /\ SessUnchanged

\* await browser.close(); then the function returns null or the averages.
MPP_CloseBrowser(a) ==
    /\ Running
    /\ sess[a].pc = "closeBrowser"
    /\ \/ sess' = [sess EXCEPT ![a] =
                      [@ EXCEPT !.browser = "closed", !.ret = ReturnValue(sess[a]),
                                !.acc = ZeroAcc, !.results = <<>>, !.pc = "returned"]]
       \/ sess' = [sess EXCEPT ![a] = Throw(sess[a])]
    /\ SessUnchanged

\* ------------------------------------------------------------------ measureNavigationPerformance
\* Date.now() - startTime around the click and the navigation it causes.
NavTimes == {600, 900}

NavIdle == [pc |-> "idle", browser |-> "none", navigationTime |-> 0, ret |-> NULL]
NavStart == [NavIdle EXCEPT !.pc = "launch"]
NavDone == [NavIdle EXCEPT !.pc = "done"]

NavUnchanged == UNCHANGED <<mainPc, exitCode, probe, sess, metrics, navTime, console,
                            performanceData, fs, writes, timestamp, net, timing, vitals, saves, full, analysis>>

\* await puppeteer.launch({headless: true})
NAV_Launch(a) ==
    /\ Running
    /\ nav[a].pc = "launch"
    /\ \/ nav' = [nav EXCEPT ![a] = [@ EXCEPT !.browser = "open", !.pc = "newPage"]]
       \/ nav' = [nav EXCEPT ![a].pc = "thrown"]
    /\ NavUnchanged

\* await browser.newPage(), then page.goto is called
NAV_NewPage(a) ==
    /\ Running
    /\ nav[a].pc = "newPage"
    /\ \/ nav' = [nav EXCEPT ![a].pc = "goto"]
       \/ nav' = [nav EXCEPT ![a].pc = "thrown"]
    /\ NavUnchanged

\* await page.goto(url, {waitUntil: "networkidle0"}); an error goes to the outer catch
NAV_Goto(a) ==
    /\ Running
    /\ nav[a].pc = "goto"
    /\ \/ nav' = [nav EXCEPT ![a].pc = "waitForSelector"]
       \/ nav' = [nav EXCEPT ![a].pc = "closeOuter"]
    /\ NavUnchanged

\* await page.waitForSelector(navLinkSelector, {visible: true, timeout: navigation})
NAV_WaitForSelector(a) ==
    /\ Running
    /\ nav[a].pc = "waitForSelector"
    /\ \/ nav' = [nav EXCEPT ![a].pc = "click"]
       \/ nav' = [nav EXCEPT ![a].pc = "closeOuter"]
    /\ NavUnchanged

\* await Promise.all([page.waitForNavigation(...), page.click(...)]); an error goes
\* to the inner catch
NAV_Click(a) ==
    /\ Running
    /\ nav[a].pc = "click"
    /\ \/ \E t \in net.navs :
            nav' = [nav EXCEPT ![a] = [@ EXCEPT !.navigationTime = t, !.pc = "closeTry"]]
       \/ nav' = [nav EXCEPT ![a].pc = "closeInner"]
    /\ NavUnchanged

\* await browser.close(); return navigationTime; still inside the inner try
NAV_CloseTry(a) ==
    /\ Running
    /\ nav[a].pc = "closeTry"
    /\ \/ nav' = [nav EXCEPT ![a] =
                    [@ EXCEPT !.browser = "closed", !.ret = Num(nav[a].navigationTime),
                              !.navigationTime = 0, !.pc = "returned"]]
       \/ nav' = [nav EXCEPT ![a] = [@ EXCEPT !.navigationTime = 0, !.pc = "closeInner"]]
    /\ NavUnchanged

\* the inner catch: await browser.close(); return null; inside the outer try
NAV_CloseInner(a) ==
    /\ Running
    /\ nav[a].pc = "closeInner"
    /\ \/ nav' = [nav EXCEPT ![a] =
                    [@ EXCEPT !.browser = "closed", !.ret = NULL, !.pc = "returned"]]
       \/ nav' = [nav EXCEPT ![a].pc = "closeOuter"]
    /\ NavUnchanged

\* the outer catch: await browser.close(); return null; an error leaves the function
NAV_CloseOuter(a) ==
    /\ Running
    /\ nav[a].pc = "closeOuter"
    /\ \/ nav' = [nav EXCEPT ![a] =
                    [@ EXCEPT !.browser = "closed", !.ret = NULL, !.pc = "returned"]]
       \/ nav' = [nav EXCEPT ![a].pc = "thrown"]
    /\ NavUnchanged

\* ------------------------------------------------------------------ displayResults
\* A winner field that holds null (a string, so that it compares with the names).
NoName == "null"

\* The winners displayResults prints; NoName where a block is skipped.
DisplayResults(rr, ts, rrNav, tsNav) ==
    [loadTimeWinner |->
        IF rr # NULL /\ ts # NULL
        THEN (IF RatLess(RatInt(0), RatSub(rr.totalLoadTime, ts.totalLoadTime))
              THEN TS ELSE RR)
        ELSE NoName,
     transferWinner |->
        IF rr # NULL /\ ts # NULL
        THEN (IF rr.totalTransferSize - ts.totalTransferSize > 0 THEN TS ELSE RR)
        ELSE NoName,
     navWinner |->
        IF rrNav # NULL /\ tsNav # NULL
        THEN (IF rrNav.value < tsNav.value THEN RR ELSE TS)
        ELSE NoName]

\* ------------------------------------------------------------------ the report
\* A value is truthy unless it is null or the number 0.
Truthy(x) == x # NULL /\ x # Num(0)

\* Reading a property of null throws a TypeError.
TypeError == [error |-> "TypeError"]

\* Mutant of ComparisonObject: the comparisons are the wrong way round.
ComparisonObject_Flipped(rr, ts, rrNav, tsNav) ==
    [loadTimeWinner |->
        IF RatLess(ts.totalLoadTime, rr.totalLoadTime) THEN RR ELSE TS,
     loadTimeDifference |-> RatAbs(RatSub(rr.totalLoadTime, ts.totalLoadTime)),
     transferSizeWinner |->
        IF ts.totalTransferSize < rr.totalTransferSize THEN RR ELSE TS,
     transferSizeDifference |-> Abs(rr.totalTransferSize - ts.totalTransferSize),
     navigationWinner |->
        IF rrNav # NULL /\ rrNav.value # 0 /\ tsNav # NULL /\ tsNav.value # 0
        THEN (IF rrNav.value < tsNav.value THEN RR ELSE TS)
        ELSE "null"]

\* The comparison object of a pair of non-null metrics.
ComparisonObject(rr, ts, rrNav, tsNav) ==
    [loadTimeWinner |->
        IF RatLess(rr.totalLoadTime, ts.totalLoadTime) THEN RR ELSE TS,
     loadTimeDifference |-> RatAbs(RatSub(rr.totalLoadTime, ts.totalLoadTime)),
     transferSizeWinner |->
        IF rr.totalTransferSize < ts.totalTransferSize THEN RR ELSE TS,
     transferSizeDifference |-> Abs(rr.totalTransferSize - ts.totalTransferSize),
     navigationWinner |->
        IF Truthy(rrNav) /\ Truthy(tsNav)
        THEN (IF rrNav.value < tsNav.value THEN RR ELSE TS)
        ELSE NoName]

\* Mutant of Comparison: only the first metrics object is tested before both are read.
Comparison_HalfGuard(rr, ts, rrNav, tsNav) ==
    IF rr # NULL
    THEN (IF ts = NULL THEN TypeError ELSE ComparisonObject(rr, ts, rrNav, tsNav))
    ELSE NULL

\* comparison: reactRouterMetrics && tanstackRouterMetrics ? {...} : null
Comparison(rr, ts, rrNav, tsNav) ==
    IF rr # NULL /\ ts # NULL THEN ComparisonObject(rr, ts, rrNav, tsNav) ELSE NULL

\* new Date(): the date and the time of day, to the millisecond.
Instants ==
    {[date |-> "2025-01-01", h |-> "00", m |-> "00", s |-> "01", ms |-> "500"],
     [date |-> "2025-01-01", h |-> "00", m |-> "00", s |-> "01", ms |-> "501"],
     [date |-> "2025-01-01", h |-> "00", m |-> "01", s |-> "00", ms |-> "500"]}

FirstInstant == [date |-> "2025-01-01", h |-> "00", m |-> "00", s |-> "01", ms |-> "500"]

\* Date.prototype.toISOString: YYYY-MM-DDTHH:mm:ss.sssZ, as the sequence of its parts.
ToISOString(t) == <<t.date, "T", t.h, ":", t.m, ":", t.s, ".", t.ms, "Z">>

\* new Date().toISOString()
Timestamps == {ToISOString(t) : t \in net.clock}

\* timestamp.replace(/[:.]/g, "-")
FileSafe(t) == [k \in DOMAIN t |-> IF t[k] \in {":", "."} THEN "-" ELSE t[k]]

LatestPath ==
    [dir |-> "performance-results", name |-> <<"latest-browser-performance.json">>]
\* history/browser/browser-results-<timestamp>.json
\* Mutant of HistoryPath: the history file is named after the date only.
HistoryPath_Daily(stamp) ==
    [dir |-> "performance-results/history/browser",
     name |-> <<"browser-results-">>
                 \o (IF stamp = <<>> THEN <<>> ELSE <<stamp[1]>>) \o <<".json">>]

HistoryPath(stamp) ==
    [dir |-> "performance-results/history/browser",
     name |-> <<"browser-results-">> \o stamp \o <<".json">>]

\* Mutant of WriteFile: a file that exists is left as it is.
WriteFile_KeepOld(files, path, data) ==
    IF \E f \in files : f.path = path THEN files
    ELSE files \cup {[path |-> path, data |-> data]}

\* fs.writeFileSync(path, data): the file is created or overwritten.
WriteFile(files, path, data) ==
    {f \in files : f.path # path} \cup {[path |-> path, data |-> data]}

\* ------------------------------------------------------------------ runBrowserPerformanceTest
\* Mutant of PromiseAll: the join resolves as soon as one promise is fulfilled.
PromiseAll_Any(fulfilled) == \E a \in Apps : fulfilled[a]

\* Promise.all resolves when every promise is fulfilled.
PromiseAll(fulfilled) == \A a \in Apps : fulfilled[a]

\* Promise.all rejects as soon as one promise is rejected.
PromiseAllRejected(rejected) == \E a \in Apps : rejected[a]

\* Mutant of CatchExitCode: the catch block logs the error and returns; the
\* process is left to end by itself.
CatchExitCode_None == "none"

\* Mutant of CatchExitCode: the catch block logs and leaves the exit code alone.
CatchExitCode_Zero == "0"

\* process.exit(1)
CatchExitCode == "1"

MainUnchanged == UNCHANGED <<console, performanceData, fs, writes, timestamp, net, timing, vitals, saves, full, analysis>>

\* Both waitForServer promises are fulfilled: both measurePagePerformance calls
\* start and run to their first await.
Main_ProbesJoined ==
    /\ Running
    /\ mainPc = "probing"
    /\ PromiseAll([a \in Apps |-> probe[a].pc \in {"ready", "undefined"}])
    /\ ~PromiseAllRejected([a \in Apps |-> probe[a].pc = "failed"])
    /\ probe' = [a \in Apps |->
                    IF probe[a].pc \in {"ready", "undefined"} THEN ProbeDone ELSE probe[a]]
    /\ sess' = [a \in Apps |-> SessStart(Iterations)]
    /\ mainPc' = "pages"
    /\ UNCHANGED <<exitCode, nav, metrics, navTime>>
    /\ MainUnchanged

\* Both measurePagePerformance promises are fulfilled: the metrics are bound and
\* both measureNavigationPerformance calls start.
Main_PagesJoined ==
    /\ Running
    /\ mainPc = "pages"
    /\ PromiseAll([a \in Apps |-> sess[a].pc = "returned"])
    /\ ~PromiseAllRejected([a \in Apps |-> sess[a].pc = "thrown"])
    /\ metrics' = [a \in Apps |->
                      IF sess[a].pc = "returned" THEN sess[a].ret ELSE metrics[a]]
    /\ sess' = [a \in Apps |-> IF sess[a].pc = "returned" THEN SessDone ELSE sess[a]]
    /\ nav' = [a \in Apps |-> NavStart]
    /\ mainPc' = "navs"
    /\ UNCHANGED <<exitCode, probe, navTime>>
    /\ MainUnchanged

\* Both measureNavigationPerformance promises are fulfilled: displayResults runs,
\* performanceData is built, and saveResults starts.  The clock is read once for
\* performanceData.timestamp and the timestamp of saveResults: the two reads follow
\* each other with no await between them.
Main_NavsJoined ==
    /\ Running
    /\ mainPc = "navs"
    /\ PromiseAll([a \in Apps |-> nav[a].pc = "returned"])
    /\ ~PromiseAllRejected([a \in Apps |-> nav[a].pc = "thrown"])
    /\ LET rrNav == IF nav[RR].pc = "returned" THEN nav[RR].ret ELSE NULL
           tsNav == IF nav[TS].pc = "returned" THEN nav[TS].ret ELSE NULL
           cmp == Comparison(metrics[RR], metrics[TS], rrNav, tsNav)
       IN /\ navTime' = [a \in Apps |-> IF a = RR THEN rrNav ELSE tsNav]
          /\ console' = DisplayResults(metrics[RR], metrics[TS], rrNav, tsNav)
          /\ nav' = [a \in Apps |-> IF nav[a].pc = "returned" THEN NavDone ELSE nav[a]]
          /\ IF cmp = TypeError
             THEN /\ exitCode' = CatchExitCode
                  /\ mainPc' = "exited"
                  /\ UNCHANGED <<performanceData, timestamp>>
             ELSE /\ \E now \in Timestamps :
                       /\ performanceData' =
                              [timestamp |-> now,
                               reactRouter |-> [pageLoad |-> metrics[RR], navigation |-> rrNav],
                               tanstackRouter |-> [pageLoad |-> metrics[TS], navigation |-> tsNav],
                               comparison |-> cmp]
                       /\ timestamp' = FileSafe(now)
                  /\ mainPc' = "saveLatest"
                  /\ UNCHANGED exitCode
    /\ UNCHANGED <<probe, sess, metrics, fs, writes, net, timing, vitals, saves, full, analysis>>

\* fs.writeFileSync(latestResultsPath, JSON.stringify(data, null, 2))
SaveResults_Latest ==
    /\ Running
    /\ mainPc = "saveLatest"
    /\ fs' = WriteFile(fs, LatestPath, performanceData)
    /\ writes' = Append(writes, LatestPath)
    /\ mainPc' = "saveHistory"
    /\ UNCHANGED <<exitCode, probe, sess, nav, metrics, navTime, console,
                   performanceData, timestamp, net, timing, vitals, saves, full, analysis>>

\* fs.writeFileSync(timestampedResultsPath, JSON.stringify(data, null, 2)); the
\* function returns and runBrowserPerformanceTest logs its last lines.
SaveResults_History ==
    /\ Running
    /\ mainPc = "saveHistory"
    /\ fs' = WriteFile(fs, HistoryPath(timestamp), performanceData)
    /\ writes' = Append(writes, HistoryPath(timestamp))
    /\ saves' = Append(saves, [timestamp |-> timestamp, data |-> performanceData])
    /\ timestamp' = <<>>
    /\ mainPc' = "returned"
    /\ UNCHANGED <<exitCode, probe, sess, nav, metrics, navTime, console,
                   performanceData, net, timing, vitals, full, analysis>>

\* Nothing is left to run: the process ends with exit code 0.
Main_Exit ==
    /\ Running
    /\ mainPc = "returned"
    /\ exitCode' = "0"
    /\ mainPc' = "exited"
    /\ UNCHANGED <<probe, sess, nav, metrics, navTime>>
    /\ MainUnchanged

\* The catch block of runBrowserPerformanceTest: an awaited Promise.all rejected.
Main_Catch ==
    /\ Running
    /\ \/ mainPc = "probing" /\ PromiseAllRejected([a \in Apps |-> probe[a].pc = "failed"])
       \/ mainPc = "pages" /\ PromiseAllRejected([a \in Apps |-> sess[a].pc = "thrown"])
       \/ mainPc = "navs" /\ PromiseAllRejected([a \in Apps |-> nav[a].pc = "thrown"])
    /\ exitCode' = CatchExitCode
    /\ mainPc' = "exited"
    /\ UNCHANGED <<probe, sess, nav, metrics, navTime>>
    /\ MainUnchanged

\* ------------------------------------------------------------------ scripts/performance-full.js
\* The browser performance test is left as it is by the steps of another program.
BrowserTestUnchanged ==
    UNCHANGED <<mainPc, exitCode, probe, sess, nav, metrics, navTime, console,
                performanceData, fs, writes, timestamp, net, timing, vitals, saves>>

\* CONFIG.reactRouter.name, CONFIG.tanstackRouter.name
Servers == {"react-router", "tanstack-router"}

\* main has not been called.  os is the state of the processes spawned for the
\* servers, serverProcesses the module-level array, start the promise of each
\* startServer call with the loop counter of its checkServerHealth, k the place
\* of stopServers in serverProcesses, stopped whether a stopServers call has run
\* to its end, failed the step of main whose error was caught.
FullIdle ==
    [pc |-> "idle", serverProcesses |-> <<>>,
     os |-> [a \in Servers |-> "none"], start |-> [a \in Servers |-> [pc |-> "idle", i |-> 0]],
     k |-> 0, stopped |-> FALSE, failed |-> "none", exitCode |-> "none"]

\* An awaited step of the try block rejects: control goes to the catch block.
FullThrow(f, step) == [f EXCEPT !.pc = "catch", !.failed = step]

\* await killExistingServers(), which catches every error of its commands
Full_KillExistingServers ==
    /\ full.exitCode = "none"
    /\ full.pc = "killExisting"
    /\ full' = [full EXCEPT !.pc = "buildReact"]
    /\ UNCHANGED analysis
    /\ BrowserTestUnchanged

\* buildApps: the build of React Router, which rethrows its error
Full_BuildReactRouter ==
    /\ full.exitCode = "none"
    /\ full.pc = "buildReact"
    /\ \/ full' = [full EXCEPT !.pc = "buildTanstack"]
       \/ full' = FullThrow(full, "build")
    /\ UNCHANGED analysis
    /\ BrowserTestUnchanged

\* buildApps: the build of TanStack Router; then both startServer calls are made:
\* each spawns its process, pushes it to serverProcesses and sets its timer.
Full_BuildTanstackRouter ==
    /\ full.exitCode = "none"
    /\ full.pc = "buildTanstack"
    /\ \/ full' = [full EXCEPT !.pc = "starting",
                               !.serverProcesses = <<"react-router", "tanstack-router">>,
                               !.os = [a \in Servers |-> "running"],
                               !.start = [a \in Servers |-> [pc |-> "waiting", i |-> 0]]]
       \/ full' = FullThrow(full, "build")
    /\ UNCHANGED analysis
    /\ BrowserTestUnchanged

\* setTimeout(..., CONFIG.waitForServer) fires: checkServerHealth is called; or
\* serverProcess.on("error"): the process could not be spawned; reject(error)
Full_ServerTimer(a) ==
    /\ full.exitCode = "none"
    /\ full.pc = "starting"
    /\ full.start[a].pc = "waiting"
    /\ \/ full' = [full EXCEPT !.start[a].pc = "check"]
       \/ full' = [full EXCEPT !.start[a].pc = "rejected", !.os[a] = "none"]
    /\ UNCHANGED analysis
    /\ BrowserTestUnchanged

\* checkServerHealth: the loop test, then await fetch(url): true on an ok response,
\* otherwise the sleep; false when the loop ends, and startServer rejects.
Full_CheckServerHealth(a) ==
    /\ full.exitCode = "none"
    /\ full.pc = "starting"
    /\ full.start[a].pc = "check"
    /\ IF full.start[a].i < MaxHealthChecks
       THEN \/ full' = [full EXCEPT !.start[a].pc = "resolved"]
            \/ full' = [full EXCEPT !.start[a].pc = "sleep"]
       ELSE full' = [full EXCEPT !.start[a].pc = "rejected"]
    /\ UNCHANGED analysis
    /\ BrowserTestUnchanged

\* await sleep(1000) in checkServerHealth
Full_HealthSleep(a) ==
    /\ full.exitCode = "none"
    /\ full.pc = "starting"
    /\ full.start[a].pc = "sleep"
    /\ full' = [full EXCEPT !.start[a] = [pc |-> "check", i |-> @.i + 1]]
    /\ UNCHANGED analysis
    /\ BrowserTestUnchanged

\* await Promise.all([startServer(...), startServer(...)]) is fulfilled
Full_ServersStarted ==
    /\ full.exitCode = "none"
    /\ full.pc = "starting"
    /\ \A a \in Servers : full.start[a].pc = "resolved"
    /\ full' = [full EXCEPT !.pc = "sleep"]
    /\ UNCHANGED analysis
    /\ BrowserTestUnchanged

\* await Promise.all([...]) rejects as soon as one startServer rejects
Full_StartRejected ==
    /\ full.exitCode = "none"
    /\ full.pc = "starting"
    /\ \E a \in Servers : full.start[a].pc = "rejected"
    /\ full' = FullThrow(full, "start")
    /\ UNCHANGED analysis
    /\ BrowserTestUnchanged

\* await sleep(3000)
Full_Sleep ==
    /\ full.exitCode = "none"
    /\ full.pc = "sleep"
    /\ full' = [full EXCEPT !.pc = "benchmark"]
    /\ UNCHANGED analysis
    /\ BrowserTestUnchanged

\* await runBenchmark()
Full_RunBenchmark ==
    /\ full.exitCode = "none"
    /\ full.pc = "benchmark"
    /\ \/ full' = [full EXCEPT !.pc = "analysis"]
       \/ full' = FullThrow(full, "benchmark")
    /\ UNCHANGED analysis
    /\ BrowserTestUnchanged

\* await runAnalysisAndReporting(), which rethrows; then the finally block
Full_RunAnalysisAndReporting ==
    /\ full.exitCode = "none"
    /\ full.pc = "analysis"
    /\ \/ full' = [full EXCEPT !.pc = "stopServers"]
       \/ full' = FullThrow(full, "analysis")
    /\ UNCHANGED analysis
    /\ BrowserTestUnchanged

\* catch (error) { log.error(...); process.exit(1); }: the process ends at once,
\* and the finally block is never entered.
Full_Catch ==
    /\ full.exitCode = "none"
    /\ full.pc = "catch"
    /\ full' = [full EXCEPT !.pc = "exited", !.exitCode = "1"]
    /\ UNCHANGED analysis
    /\ BrowserTestUnchanged

\* stopServers, one iteration of its loop: SIGTERM to the shell of a server, the
\* 2 s sleep; the server itself may survive its shell.  After the loop,
\* killExistingServers kills what listens on the ports, and serverProcesses = [].
Full_StopServers ==
    /\ full.exitCode = "none"
    /\ full.pc = "stopServers"
    /\ IF full.k < Len(full.serverProcesses)
       THEN \E after \in {"running", "stopped"} :
              full' = [full EXCEPT !.os[full.serverProcesses[full.k + 1]] = after,
                                   !.k = @ + 1]
       ELSE full' = [full EXCEPT !.os = [a \in Servers |->
                                            IF @[a] = "running" THEN "stopped" ELSE @[a]],
                                 !.serverProcesses = <<>>, !.k = 0,
                                 !.stopped = TRUE, !.pc = "returned"]
    /\ UNCHANGED analysis
    /\ BrowserTestUnchanged

\* main has returned and nothing is left to run: the process ends with code 0.
Full_Exit ==
    /\ full.exitCode = "none"
    /\ full.pc = "returned"
    /\ full' = [full EXCEPT !.pc = "exited", !.exitCode = "0"]
    /\ UNCHANGED analysis
    /\ BrowserTestUnchanged

\* ------------------------------------------------------------------ the analysis of benchmark results
\* The Lighthouse metrics generateComparison compares, and the performance score.
ComparedKeys == {"fcp", "lcp", "cls", "tbt", "tti", "si"} \cup {"performanceScore"}

\* The means of the analysis of an app.
MeanValues == {0, 100, 200}

AnalysisIdle ==
    [pc |-> "idle", reactRouter |-> UNDEFINED, tanstackRouter |-> UNDEFINED,
     improvements |-> [k \in ComparedKeys |-> UNDEFINED], summary |-> NULL]

\* calculateImprovement(baseline, comparison, reverse), in percent
CalculateImprovement(baseline, comparison, reverse) ==
    IF Not(baseline) \/ Not(comparison) \/ baseline.value = 0 THEN NULL
    ELSE IF reverse
         THEN Rat((baseline.value - comparison.value) * 100, baseline.value)
         ELSE Rat((comparison.value - baseline.value) * 100, baseline.value)

\* generateComparison for one route: the improvements object, undefined for a key
\* that is not set; no entry at all when the analysis of an app is missing.
GenerateComparison(reactRouter, tanstackRouter) ==
    [k \in ComparedKeys |->
        IF reactRouter = UNDEFINED \/ tanstackRouter = UNDEFINED THEN UNDEFINED
        ELSE IF ~Not(reactRouter[k]) /\ ~Not(tanstackRouter[k])
             THEN CalculateImprovement(reactRouter[k], tanstackRouter[k], k = "cls")
             ELSE UNDEFINED]

\* if (improvement !== null && improvement !== undefined) totalComparisons++
Counted(improvements) ==
    {k \in ComparedKeys : improvements[k] # NULL /\ improvements[k] # UNDEFINED}

\* if (improvement > 0) tanstackWins++
TanStackCredited(improvements) ==
    {k \in Counted(improvements) : RatLess(RatInt(0), improvements[k])}

\* The counters of the summary of displayAnalysis.
Summary(improvements) ==
    [totalComparisons |-> Cardinality(Counted(improvements)),
     tanstackWins |-> Cardinality(TanStackCredited(improvements)),
     reactWins |-> Cardinality(Counted(improvements) \ TanStackCredited(improvements))]

\* const comparison = generateComparison(analysis)
Analysis_GenerateComparison ==
    /\ analysis.pc = "analysed"
    /\ analysis' = [analysis EXCEPT
                       !.improvements = GenerateComparison(analysis.reactRouter,
                                                           analysis.tanstackRouter),
                       !.pc = "compared"]
    /\ UNCHANGED full
    /\ BrowserTestUnchanged

\* displayAnalysis(analysis, comparison): the summary is printed when the
\* comparison has a route.
Analysis_DisplayAnalysis ==
    /\ analysis.pc = "compared"
    /\ analysis' = [analysis EXCEPT
                       !.summary = IF analysis.reactRouter # UNDEFINED
                                      /\ analysis.tanstackRouter # UNDEFINED
                                   THEN Summary(analysis.improvements) ELSE NULL,
                       !.pc = "displayed"]
    /\ UNCHANGED full
    /\ BrowserTestUnchanged

\* ------------------------------------------------------------------ specification
\* runBrowserPerformanceTest is called; cap is the number of responses watched
\* on each page.
BrowserTestStart(cap) ==
    /\ mainPc = "probing"
    /\ exitCode = "none"
    /\ probe = [a \in Apps |-> ProbeStart(MaxRetries)]
    /\ sess = [a \in Apps |-> SessIdle]
    /\ nav = [a \in Apps |-> NavIdle]
    /\ metrics = [a \in Apps |-> NULL]
    /\ navTime = [a \in Apps |-> NULL]
    /\ console = DisplayResults(NULL, NULL, NULL, NULL)
    /\ performanceData = NULL
    /\ fs = {}
    /\ writes = <<>>
    /\ timestamp = <<>>
    /\ net = [kinds |-> {JsBundle}, cap |-> cap, vitals |-> {BothPaints}, trace |-> FALSE,
              clock |-> {FirstInstant}, navs |-> NavTimes]
    /\ timing = TimingIdle
    /\ vitals = VitalsIdle
    /\ saves = <<>>

\* The whole run.  Each page load is watched for at most one response, a script;
\* SpecSession watches one measurement session with every kind of response.
Init ==
    /\ BrowserTestStart(1)
    /\ full = FullIdle
    /\ analysis = AnalysisIdle

\* The steps of the run itself: every step but the arrival of a response, which
\* only feeds the accumulators of a trial.
NextControl ==
    \/ \E a \in Apps : WaitForServer_Attempt(a)
    \/ \E a \in Apps : WaitForServer_Delay(a)
    \/ \E a \in Apps : MPP_Launch(a)
    \/ \E a \in Apps : MPP_NewPage(a)
    \/ \E a \in Apps : MPP_SetCacheEnabled(a)
    \/ \E a \in Apps : MPP_CreateCDPSession(a)
    \/ \E a \in Apps : MPP_NetworkEnable(a)
    \/ \E a \in Apps : MPP_PerformanceEnable(a)
    \/ \E a \in Apps : MPP_Goto(a)
    \/ \E a \in Apps : MPP_WaitForSelector(a)
    \/ \E a \in Apps : MPP_Grace(a)
    \/ \E a \in Apps : MPP_EvalTiming(a)
    \/ \E a \in Apps : MPP_EvalVitals(a)
    \/ \E a \in Apps : MPP_ClosePage(a)
    \/ \E a \in Apps : MPP_CloseBrowser(a)
    \/ \E a \in Apps : NAV_Launch(a)
    \/ \E a \in Apps : NAV_NewPage(a)
    \/ \E a \in Apps : NAV_Goto(a)
    \/ \E a \in Apps : NAV_WaitForSelector(a)
    \/ \E a \in Apps : NAV_Click(a)
    \/ \E a \in Apps : NAV_CloseTry(a)
    \/ \E a \in Apps : NAV_CloseInner(a)
    \/ \E a \in Apps : NAV_CloseOuter(a)
    \/ Main_ProbesJoined
    \/ Main_PagesJoined
    \/ Main_NavsJoined
    \/ SaveResults_Latest
    \/ SaveResults_History
    \/ Main_Exit
    \/ Main_Catch

Next ==
    \/ NextControl
    \/ \E a \in Apps : MPP_ResponseReceived(a)

Spec == Init /\ [][Next]_vars

\* The whole run, with no response watched, on an event loop that does not stop
\* while a step is possible: every pending request, navigation, wait and timer
\* settles, at the latest when its timeout fires, and a continuation that is
\* ready is run.
InitLive ==
    /\ BrowserTestStart(0)
    /\ full = FullIdle
    /\ analysis = AnalysisIdle

SpecLive == InitLive /\ [][NextControl]_vars /\ WF_vars(NextControl)

\* One call of measurePagePerformance(app.pageUrl, app.name, iterations).
InitSession ==
    /\ mainPc = "pages"
    /\ exitCode = "none"
    /\ probe = [a \in Apps |-> ProbeDone]
    /\ \E n \in 1..Iterations :
          sess = [a \in Apps |-> IF a = RR THEN SessStart(n) ELSE SessIdle]
    /\ nav = [a \in Apps |-> NavIdle]
    /\ metrics = [a \in Apps |-> NULL]
    /\ navTime = [a \in Apps |-> NULL]
    /\ console = DisplayResults(NULL, NULL, NULL, NULL)
    /\ performanceData = NULL
    /\ fs = {}
    /\ writes = <<>>
    /\ timestamp = <<>>
    /\ net = [kinds |-> Responses, cap |-> MaxResponses, vitals |-> {BothPaints},
              trace |-> FALSE, clock |-> {FirstInstant}, navs |-> NavTimes]
    /\ timing = TimingIdle
    /\ vitals = VitalsIdle
    /\ saves = <<>>
    /\ full = FullIdle
    /\ analysis = AnalysisIdle

NextSession ==
    \/ \E a \in Apps : MPP_Launch(a)
    \/ \E a \in Apps : MPP_NewPage(a)
    \/ \E a \in Apps : MPP_SetCacheEnabled(a)
    \/ \E a \in Apps : MPP_CreateCDPSession(a)
    \/ \E a \in Apps : MPP_NetworkEnable(a)
    \/ \E a \in Apps : MPP_PerformanceEnable(a)
    \/ \E a \in Apps : MPP_ResponseReceived(a)
    \/ \E a \in Apps : MPP_Goto(a)
    \/ \E a \in Apps : MPP_WaitForSelector(a)
    \/ \E a \in Apps : MPP_Grace(a)
    \/ \E a \in Apps : MPP_EvalTiming(a)
    \/ \E a \in Apps : MPP_EvalVitals(a)
    \/ \E a \in Apps : MPP_ClosePage(a)
    \/ \E a \in Apps : MPP_CloseBrowser(a)

SpecSession == InitSession /\ [][NextSession]_vars

\* CONFIG.iterations
ConfigIterations == 3

\* One call of measurePagePerformance with the configured number of trials, on a
\* page watched for at most one response, with the history of selector timeouts
\* and errors kept.
InitTrials ==
    /\ mainPc = "pages"
    /\ exitCode = "none"
    /\ probe = [a \in Apps |-> ProbeDone]
    /\ sess = [a \in Apps |-> IF a = RR THEN SessStart(ConfigIterations) ELSE SessIdle]
    /\ nav = [a \in Apps |-> NavIdle]
    /\ metrics = [a \in Apps |-> NULL]
    /\ navTime = [a \in Apps |-> NULL]
    /\ console = DisplayResults(NULL, NULL, NULL, NULL)
    /\ performanceData = NULL
    /\ fs = {}
    /\ writes = <<>>
    /\ timestamp = <<>>
    /\ net = [kinds |-> {JsBundle}, cap |-> 1, vitals |-> {BothPaints}, trace |-> TRUE,
              clock |-> {FirstInstant}, navs |-> NavTimes]
    /\ timing = TimingIdle
    /\ vitals = VitalsIdle
    /\ saves = <<>>
    /\ full = FullIdle
    /\ analysis = AnalysisIdle

SpecTrials == InitTrials /\ [][NextSession]_vars

\* A later run of the program on the same file system comes to its saveResults
\* call: here a run whose sessions had no successful trial.
Run_ToSaveResults ==
    /\ mainPc = "exited"
    /\ exitCode = "0"
    /\ Len(saves) < MaxRuns
    /\ \E now \in Timestamps, rrNav \in {NULL, Num(600)} :
          /\ navTime' = [a \in Apps |-> IF a = RR THEN rrNav ELSE NULL]
          /\ performanceData' =
                 [timestamp |-> now,
                  reactRouter |-> [pageLoad |-> NULL, navigation |-> rrNav],
                  tanstackRouter |-> [pageLoad |-> NULL, navigation |-> NULL],
                  comparison |-> Comparison(NULL, NULL, rrNav, NULL)]
          /\ timestamp' = FileSafe(now)
    /\ exitCode' = "none"
    /\ mainPc' = "saveLatest"
    /\ writes' = <<>>
    /\ UNCHANGED <<probe, sess, nav, metrics, console, fs, net, timing, vitals, saves, full, analysis>>

\* Runs of the program that reach saveResults, one after the other, with a clock
\* that may show any of Instants.
InitSave ==
    /\ mainPc = "saveLatest"
    /\ exitCode = "none"
    /\ probe = [a \in Apps |-> ProbeDone]
    /\ sess = [a \in Apps |-> SessDone]
    /\ nav = [a \in Apps |-> NavDone]
    /\ metrics = [a \in Apps |-> NULL]
    /\ navTime = [a \in Apps |-> NULL]
    /\ console = DisplayResults(NULL, NULL, NULL, NULL)
    /\ net = [kinds |-> {JsBundle}, cap |-> 1, vitals |-> {BothPaints}, trace |-> FALSE,
              clock |-> Instants, navs |-> NavTimes]
    /\ \E now \in Timestamps :
          /\ performanceData =
                 [timestamp |-> now,
                  reactRouter |-> [pageLoad |-> NULL, navigation |-> NULL],
                  tanstackRouter |-> [pageLoad |-> NULL, navigation |-> NULL],
                  comparison |-> NULL]
          /\ timestamp = FileSafe(now)
    /\ fs = {}
    /\ writes = <<>>
    /\ timing = TimingIdle
    /\ vitals = VitalsIdle
    /\ saves = <<>>
    /\ full = FullIdle
    /\ analysis = AnalysisIdle

NextSave ==
    \/ SaveResults_Latest
    \/ SaveResults_History
    \/ Main_Exit
    \/ Run_ToSaveResults

SpecSave == InitSave /\ [][NextSave]_vars

\* The run from the moment both servers are ready, on pages whose largest
\* contentful paint may stay unobserved until the timer of the paint capture fires.
InitReport ==
    /\ mainPc = "pages"
    /\ exitCode = "none"
    /\ probe = [a \in Apps |-> ProbeDone]
    /\ sess = [a \in Apps |-> SessStart(Iterations)]
    /\ nav = [a \in Apps |-> NavIdle]
    /\ metrics = [a \in Apps |-> NULL]
    /\ navTime = [a \in Apps |-> NULL]
    /\ console = DisplayResults(NULL, NULL, NULL, NULL)
    /\ performanceData = NULL
    /\ fs = {}
    /\ writes = <<>>
    /\ timestamp = <<>>
    /\ net = [kinds |-> {JsBundle}, cap |-> 1, vitals |-> {BothPaints, OnlyFcp},
              trace |-> FALSE, clock |-> {FirstInstant}, navs |-> NavTimes]
    /\ timing = TimingIdle
    /\ vitals = VitalsIdle
    /\ saves = <<>>
    /\ full = FullIdle
    /\ analysis = AnalysisIdle

NextReport ==
    \/ NextSession
    \/ \E a \in Apps : NAV_Launch(a)
    \/ \E a \in Apps : NAV_NewPage(a)
    \/ \E a \in Apps : NAV_Goto(a)
    \/ \E a \in Apps : NAV_WaitForSelector(a)
    \/ \E a \in Apps : NAV_Click(a)
    \/ \E a \in Apps : NAV_CloseTry(a)
    \/ \E a \in Apps : NAV_CloseInner(a)
    \/ \E a \in Apps : NAV_CloseOuter(a)
    \/ Main_PagesJoined
    \/ Main_NavsJoined
    \/ SaveResults_Latest
    \/ SaveResults_History
    \/ Main_Exit
    \/ Main_Catch

SpecReport == InitReport /\ [][NextReport]_vars

\* The run from the moment both servers are ready, with one trial per app and a
\* clock that may show the same millisecond before the click and after the
\* navigation.
InitNavigation ==
    /\ mainPc = "pages"
    /\ exitCode = "none"
    /\ probe = [a \in Apps |-> ProbeDone]
    /\ sess = [a \in Apps |-> SessStart(1)]
    /\ nav = [a \in Apps |-> NavIdle]
    /\ metrics = [a \in Apps |-> NULL]
    /\ navTime = [a \in Apps |-> NULL]
    /\ console = DisplayResults(NULL, NULL, NULL, NULL)
    /\ performanceData = NULL
    /\ fs = {}
    /\ writes = <<>>
    /\ timestamp = <<>>
    /\ net = [kinds |-> {JsBundle}, cap |-> 1, vitals |-> {BothPaints}, trace |-> FALSE,
              clock |-> {FirstInstant}, navs |-> {0} \cup NavTimes]
    /\ timing = TimingIdle
    /\ vitals = VitalsIdle
    /\ saves = <<>>
    /\ full = FullIdle
    /\ analysis = AnalysisIdle

SpecNavigation == InitNavigation /\ [][NextReport]_vars

\* The two waitForServer calls of a run, for every number of retries from 0 up.
InitProbe ==
    /\ mainPc = "probing"
    /\ exitCode = "none"
    /\ \E n \in 0..MaxRetries : probe = [a \in Apps |-> ProbeStart(n)]
    /\ sess = [a \in Apps |-> SessIdle]
    /\ nav = [a \in Apps |-> NavIdle]
    /\ metrics = [a \in Apps |-> NULL]
    /\ navTime = [a \in Apps |-> NULL]
    /\ console = DisplayResults(NULL, NULL, NULL, NULL)
    /\ performanceData = NULL
    /\ fs = {}
    /\ writes = <<>>
    /\ timestamp = <<>>
    /\ net = [kinds |-> {JsBundle}, cap |-> 1, vitals |-> {BothPaints}, trace |-> FALSE,
              clock |-> {FirstInstant}, navs |-> NavTimes]
    /\ timing = TimingIdle
    /\ vitals = VitalsIdle
    /\ saves = <<>>
    /\ full = FullIdle
    /\ analysis = AnalysisIdle

NextProbe ==
    \/ \E a \in Apps : WaitForServer_Attempt(a)
    \/ \E a \in Apps : WaitForServer_Delay(a)
    \/ Main_ProbesJoined
    \/ Main_Catch

SpecProbe == InitProbe /\ [][NextProbe]_vars

\* One run of main of scripts/performance-full.js.
InitFull ==
    /\ BrowserTestStart(1)
    /\ full = [FullIdle EXCEPT !.pc = "killExisting"]
    /\ analysis = AnalysisIdle

NextFull ==
    \/ Full_KillExistingServers
    \/ Full_BuildReactRouter
    \/ Full_BuildTanstackRouter
    \/ \E a \in Servers : Full_ServerTimer(a)
    \/ \E a \in Servers : Full_CheckServerHealth(a)
    \/ \E a \in Servers : Full_HealthSleep(a)
    \/ Full_ServersStarted
    \/ Full_StartRejected
    \/ Full_Sleep
    \/ Full_RunBenchmark
    \/ Full_RunAnalysisAndReporting
    \/ Full_Catch
    \/ Full_StopServers
    \/ Full_Exit

SpecFull == InitFull /\ [][NextFull]_vars

\* One analysis of a route: the analysis of an app holds a mean, a number, for at
\* most MaxMeasured of the compared metrics and undefined for the rest; the
\* analysis of TanStack Router may be missing.
InitAnalysis ==
    /\ BrowserTestStart(1)
    /\ full = FullIdle
    /\ \E measured \in [{"reactRouter", "tanstackRouter"} ->
                           {S \in SUBSET ComparedKeys : Cardinality(S) <= MaxMeasured}] :
       \E r \in [measured.reactRouter -> MeanValues],
          t \in [measured.tanstackRouter -> MeanValues],
          present \in BOOLEAN :
          analysis = [AnalysisIdle EXCEPT
                         !.pc = "analysed",
                         !.reactRouter =
                             [k \in ComparedKeys |->
                                 IF k \in DOMAIN r THEN Num(r[k]) ELSE UNDEFINED],
                         !.tanstackRouter =
                             IF present
                             THEN [k \in ComparedKeys |->
                                      IF k \in DOMAIN t THEN Num(t[k]) ELSE UNDEFINED]
                             ELSE UNDEFINED]

NextAnalysis == Analysis_GenerateComparison \/ Analysis_DisplayAnalysis

SpecAnalysis == InitAnalysis /\ [][NextAnalysis]_vars

\* The frame of a session whose first trial has reached the given await.
SessAt(pc) ==
    [SessStart(Iterations) EXCEPT !.pc = pc, !.browser = "open", !.page = "open",
                                  !.started = 1]

\* The first page.evaluate of a trial, for every navigation entry of PerfEntries.
InitTiming ==
    /\ mainPc = "pages"
    /\ exitCode = "none"
    /\ probe = [a \in Apps |-> ProbeDone]
    /\ \E t \in ActualLoadTimes :
          /\ sess = [a \in Apps |-> [SessAt("evalTiming") EXCEPT !.actualLoadTime = t]]
          /\ \E e \in PerfEntries :
                timing = [TimingIdle EXCEPT !.pc = "evaluate", !.perfData = e,
                                            !.actualLoadTime = t]
    /\ nav = [a \in Apps |-> NavIdle]
    /\ metrics = [a \in Apps |-> NULL]
    /\ navTime = [a \in Apps |-> NULL]
    /\ console = DisplayResults(NULL, NULL, NULL, NULL)
    /\ performanceData = NULL
    /\ fs = {}
    /\ writes = <<>>
    /\ timestamp = <<>>
    /\ net = [kinds |-> {JsBundle}, cap |-> 1, vitals |-> {BothPaints}, trace |-> FALSE,
              clock |-> {FirstInstant}, navs |-> NavTimes]
    /\ vitals = VitalsIdle
    /\ saves = <<>>
    /\ full = FullIdle
    /\ analysis = AnalysisIdle

NextTiming == Timing_Evaluate \/ Timing_Record

SpecTiming == InitTiming /\ [][NextTiming]_vars

\* The second page.evaluate of a trial: the observers and the timer of one page.
InitVitals ==
    /\ mainPc = "pages"
    /\ exitCode = "none"
    /\ probe = [a \in Apps |-> ProbeDone]
    /\ \E t \in ActualLoadTimes, q \in PerfTotals :
          sess = [a \in Apps |->
                    [SessAt("evalVitals") EXCEPT !.actualLoadTime = t, !.perfTotal = q]]
    /\ nav = [a \in Apps |-> NavIdle]
    /\ metrics = [a \in Apps |-> NULL]
    /\ navTime = [a \in Apps |-> NULL]
    /\ console = DisplayResults(NULL, NULL, NULL, NULL)
    /\ performanceData = NULL
    /\ fs = {}
    /\ writes = <<>>
    /\ timestamp = <<>>
    /\ net = [kinds |-> {JsBundle}, cap |-> 1, vitals |-> {BothPaints}, trace |-> FALSE,
              clock |-> {FirstInstant}, navs |-> NavTimes]
    /\ timing = TimingIdle
    /\ vitals = VitalsStart
    /\ saves = <<>>
    /\ full = FullIdle
    /\ analysis = AnalysisIdle

NextVitals == Vitals_Fcp \/ Vitals_Lcp \/ Vitals_Timer

SpecVitals == InitVitals /\ [][NextVitals]_vars

\* ------------------------------------------------------------------ claims
Other(a) == IF a = RR THEN TS ELSE RR

\* C1: if the readiness probes of all apps succeed, the run ends with exit code 0
\* and has written the latest file once and one history file, whichever trials or
\* navigation measurements failed; exit code 1 is reached only when a probe failed.
C1_ReadyRunAlwaysPersists ==
    /\ (mainPc = "exited" /\ \A a \in Apps : probe[a].pc = "done")
          => /\ exitCode = "0"
             /\ Len(writes) = 2
             /\ writes[1] = LatestPath
             /\ writes[2] = HistoryPath(FileSafe(performanceData.timestamp))
    /\ exitCode = "1" => \E a \in Apps : probe[a].pc = "failed"

\* C2: an error raised by any step of a trial (opening the page, the cache switch,
\* the CDP session, navigation, reading metrics, closing the page) drops only that
\* trial: measurePagePerformance does not end by that error, and when it ends every
\* one of its trials has been run.
C2_TrialErrorDropsOnlyTrial ==
    \A a \in Apps :
        /\ sess[a].pc = "thrown" =>
              \/ sess[a].browser = "none"
              \/ sess[a].started = sess[a].iterations /\ sess[a].page = "closed"
        /\ sess[a].pc = "returned" => sess[a].started = sess[a].iterations

\* The recorded metrics of a trial are what its own page had received.
Matches(r, t) ==
    /\ r.networkRequests = t.requests
    /\ r.totalTransferSize = t.bytes
    /\ r.jsSize = t.js
    /\ r.cssSize = t.css

\* C3: the accumulators of a trial start at zero, so at every moment of a trial
\* they count the responses received on that trial's page only, the metrics
\* recorded for a trial are those of its own page, and the aggregated request
\* count is the rounded mean of the per-trial counts.
C3_AccumulatorsPerTrial ==
    \A a \in Apps :
        LET s == sess[a] IN
        /\ (s.pc \in Navigated /\ s.page = "open") => Matches(s.acc, Snapshot(s.sent))
        /\ Len(s.results) <= Len(s.truth)
        /\ \A j \in 1..Len(s.results) : Matches(s.results[j], s.truth[j])
        /\ (s.pc = "returned" /\ s.ret # NULL) =>
              /\ Len(s.ret.rawResults) = Len(s.truth)
              /\ \A j \in 1..Len(s.truth) : Matches(s.ret.rawResults[j], s.truth[j])
              /\ s.ret.networkRequests
                    = MathRound(SumOver(s.truth, "requests"), Len(s.truth))
              /\ s.ret.totalTransferSize
                    = MathRound(SumOver(s.truth, "bytes"), Len(s.truth))

\* Two trials that saw 2 and 1 responses aggregate to round(1.5) = 2 requests.
C3_Witness ==
    \E a \in Apps :
        /\ sess[a].pc = "returned"
        /\ sess[a].ret # NULL
        /\ Len(sess[a].truth) = 2
        /\ sess[a].truth[1].requests = 2
        /\ sess[a].truth[2].requests = 1
        /\ sess[a].ret.networkRequests = 2

\* C4: no page-load trial and no navigation measurement starts before the
\* readiness probes of all apps have succeeded.
C4_NoMeasurementBeforeAllReady ==
    (\E a \in Apps : sess[a].pc # "idle" \/ sess[a].started > 0 \/ nav[a].pc # "idle")
        => \A b \in Apps : probe[b].pc = "done"

C4_Witness ==
    /\ \E a \in Apps : sess[a].started >= 1 /\ sess[a].pc = "goto"
    /\ \A b \in Apps : probe[b].pc = "done"

\* C5: once the probe of an app has used up its retries, no trial and no navigation
\* measurement is ever started, no file is written, the only step left to the run
\* is its catch block, and the process ends with exit code 1.
C5_ProbeFailureAborts ==
    (\E a \in Apps : probe[a].pc = "failed") =>
        /\ \A b \in Apps : sess[b].pc = "idle" /\ sess[b].started = 0 /\ nav[b].pc = "idle"
        /\ fs = {} /\ writes = <<>>
        /\ exitCode \in {"none", "1"}
        /\ mainPc = "exited" <=> exitCode = "1"
        /\ exitCode = "none" => ENABLED Main_Catch /\ ~ENABLED Main_ProbesJoined

C5_Witness ==
    \E a \in Apps :
        /\ probe[a].pc = "failed"
        /\ probe[Other(a)].pc = "ready"
        /\ exitCode = "1"

\* C6: waitForServer makes at most maxRetries attempts, waits once after every
\* failed attempt that is followed by another, returns ready at the first attempt
\* that gets a response, and throws exactly when maxRetries attempts have failed.
C6_WaitForServerRetries ==
    \A a \in Apps :
        LET p == probe[a] IN
        p.pc # "done" =>
            /\ p.attempts <= p.maxRetries
            /\ p.pc = "ready" => p.attempts = p.failures + 1 /\ p.delays = p.failures
            /\ p.pc = "attempt" => p.attempts = p.failures /\ p.delays = p.failures
            /\ p.pc \in {"delay", "failed"} =>
                  p.attempts = p.failures /\ p.delays = p.failures - 1
            /\ p.pc = "failed" <=> p.failures = p.maxRetries
            /\ p.pc # "undefined"

C6_Witness ==
    \E a \in Apps :
        /\ probe[a].pc = "failed"
        /\ probe[a].failures = probe[a].maxRetries
        /\ probe[a].delays >= 1
        /\ probe[Other(a)].pc = "ready"
        /\ probe[Other(a)].failures >= 1

\* C7: an attempt that receives a response makes the server ready whatever the
\* status code; an attempt counts as failed only after a connection error or a
\* request timeout.
C7_AnyResponseIsReady ==
    \A a \in Apps :
        LET p == probe[a] IN
        /\ p.last.kind = "response" => p.pc = "ready"
        /\ (p.pc \in {"delay", "failed"} \/ (p.pc = "attempt" /\ p.attempts > 0))
              => p.last.kind \in {"error", "timeout"}

C7_Witness ==
    \E a \in Apps :
        /\ probe[a].pc = "ready" /\ probe[a].last.status = 500
        /\ probe[Other(a)].pc = "ready" /\ probe[Other(a)].last.status = 404

\* C8: measurePagePerformance returns null exactly when none of its trials
\* succeeded; otherwise iterations is the number of successful trials, which is the
\* length of rawResults and lies between 1 and the number of trials asked for.
C8_NullIffNoSuccess ==
    \A a \in Apps :
        LET s == sess[a] IN
        s.pc = "returned" =>
            /\ s.ret = NULL <=> s.succeeded = 0
            /\ s.ret # NULL =>
                  /\ s.ret.iterations = s.succeeded
                  /\ s.ret.iterations = Len(s.ret.rawResults)
                  /\ 1 <= s.ret.iterations /\ s.ret.iterations <= s.iterations

C8_Witness ==
    \E a \in Apps :
        /\ sess[a].pc = "returned"
        /\ sess[a].ret # NULL
        /\ sess[a].ret.iterations = 1
        /\ sess[a].iterations = 2

\* The apps a comparison names as a winner.
WinnersNamed(c) ==
    IF c = NULL THEN {}
    ELSE {c.loadTimeWinner, c.transferSizeWinner, c.navigationWinner} \ {NoName}

\* C9: when the metrics of an app are null, building the report does not throw
\* (the run never ends with exit code 1 for another reason than a rejected probe,
\* measurement or navigation call), the comparison names that app as no winner,
\* and the comparison of the report is null.
C9_NullMetricsNamedNowhere ==
    /\ exitCode = "1" =>
          \E a \in Apps : probe[a].pc = "failed" \/ sess[a].pc = "thrown"
                            \/ nav[a].pc = "thrown"
    /\ performanceData # NULL =>
          \A a \in Apps :
              metrics[a] = NULL =>
                  /\ a \notin WinnersNamed(performanceData.comparison)
                  /\ performanceData.comparison = NULL

C9_Witness ==
    /\ performanceData # NULL
    /\ metrics[RR] = NULL /\ metrics[TS] # NULL
    /\ navTime[RR] # NULL /\ navTime[TS] # NULL
    /\ performanceData.comparison = NULL
    /\ LatestPath \in {f.path : f \in fs}

\* C10: with two non-null metrics of different means, the winner of the report is
\* the app with the strictly lower mean and the difference is the absolute
\* difference of the means, which is positive; means 4934 and 5627 give the first
\* app and 693.
C10_LowerMeanWins ==
    (performanceData # NULL /\ performanceData.comparison # NULL) =>
        LET c == performanceData.comparison
            load == [a \in Apps |-> metrics[a].totalLoadTime]
            size == [a \in Apps |-> metrics[a].totalTransferSize]
        IN /\ load[RR] # load[TS] =>
                 /\ RatLess(load[c.loadTimeWinner], load[Other(c.loadTimeWinner)])
                 /\ c.loadTimeDifference
                       = RatSub(load[Other(c.loadTimeWinner)], load[c.loadTimeWinner])
                 /\ RatLess(RatInt(0), c.loadTimeDifference)
           /\ size[RR] # size[TS] =>
                 /\ size[c.transferSizeWinner] < size[Other(c.transferSizeWinner)]
                 /\ c.transferSizeDifference
                       = size[Other(c.transferSizeWinner)] - size[c.transferSizeWinner]
                 /\ c.transferSizeDifference > 0
           /\ (load[RR] = RatInt(4934) /\ load[TS] = RatInt(5627)) =>
                 c.loadTimeWinner = RR /\ c.loadTimeDifference = RatInt(693)

C10_Witness ==
    /\ performanceData # NULL /\ performanceData.comparison # NULL
    /\ metrics[RR].totalLoadTime = RatInt(4934)
    /\ metrics[TS].totalLoadTime = RatInt(5627)
    /\ metrics[RR].totalTransferSize > metrics[TS].totalTransferSize
    /\ performanceData.comparison.loadTimeWinner = RR
    /\ performanceData.comparison.loadTimeDifference = RatInt(693)
    /\ performanceData.comparison.transferSizeWinner = TS

\* The sum of a field over a list of trials, counted from the last trial back.
FieldSum(trials, f) ==
    LET RECURSIVE Upto(_)
        Upto(k) == IF k = 0 THEN 0 ELSE trials[k][f] + Upto(k - 1)
    IN Upto(Len(trials))

\* The orders in which n trials can be listed.
Orders(n) == {p \in [1..n -> 1..n] : \A i, j \in 1..n : p[i] = p[j] => i = j}

\* The number x (a fraction) is exactly sum / n.
IsMean(x, sum, n) == x.d > 0 /\ x.n * n = sum * x.d

\* C11: for every non-empty list of successful trials, the aggregated
\* totalLoadTime is the sum of the trials' totalLoadTime divided by their number,
\* and it is the same for every order of the trials.
C11_LoadTimeIsMean ==
    \A a \in Apps :
        LET s == sess[a] IN
        (s.pc = "returned" /\ s.ret # NULL) =>
            LET raw == s.ret.rawResults
                n == Len(raw)
            IN /\ n >= 1 /\ n = s.succeeded
               /\ IsMean(s.ret.totalLoadTime, FieldSum(raw, "totalLoadTime"), n)
               /\ \A p \in Orders(n) :
                     Aggregate([j \in 1..n |-> raw[p[j]]]).totalLoadTime
                         = s.ret.totalLoadTime

\* Trials of 4934 ms and 5627 ms average to 10561 / 2 ms.
C11_Witness ==
    \E a \in Apps :
        /\ sess[a].pc = "returned" /\ sess[a].ret # NULL
        /\ Len(sess[a].ret.rawResults) = 2
        /\ sess[a].ret.rawResults[1].totalLoadTime = 5627
        /\ sess[a].ret.rawResults[2].totalLoadTime = 4934
        /\ sess[a].ret.totalLoadTime = [n |-> 10561, d |-> 2]

\* The fields of the averages that count requests and bytes.
CountFields == {"networkRequests", "totalTransferSize", "jsSize", "cssSize"}
\* The fields of the averages that are times.
TimeFields == {"totalLoadTime", "firstContentfulPaint", "largestContentfulPaint"}

\* C12 as stated: every numeric field of the averages, networkRequests,
\* totalTransferSize, jsSize and cssSize included, is the exact arithmetic mean of
\* that field over the successful trials.
C12_EveryFieldExactMean ==
    \A a \in Apps :
        LET s == sess[a] IN
        (s.pc = "returned" /\ s.ret # NULL) =>
            LET raw == s.ret.rawResults IN
            /\ \A f \in TimeFields : IsMean(s.ret[f], FieldSum(raw, f), Len(raw))
            /\ \A f \in CountFields : s.ret[f] * Len(raw) = FieldSum(raw, f)

\* C12 amended: the time fields are exact means; networkRequests,
\* totalTransferSize, jsSize and cssSize are the mean rounded to the nearest
\* integer, a half rounded up, and so are exact only when the count divides the sum.
C12_CountFieldsRoundedMean ==
    \A a \in Apps :
        LET s == sess[a] IN
        (s.pc = "returned" /\ s.ret # NULL) =>
            LET raw == s.ret.rawResults
                n == Len(raw)
            IN /\ \A f \in TimeFields : IsMean(s.ret[f], FieldSum(raw, f), n)
               /\ \A f \in CountFields :
                     LET sum == FieldSum(raw, f) IN
                     /\ 2 * sum - n < 2 * n * s.ret[f]
                     /\ 2 * n * s.ret[f] <= 2 * sum + n
                     /\ (sum % n = 0) <=> (s.ret[f] * n = sum)

\* Two trials that transferred 1 and 2 bytes: the mean 1.5 is stored as 2.
C12_Witness ==
    \E a \in Apps :
        /\ sess[a].pc = "returned" /\ sess[a].ret # NULL
        /\ Len(sess[a].ret.rawResults) = 2
        /\ sess[a].ret.rawResults[1].totalTransferSize = 1
        /\ sess[a].ret.rawResults[2].totalTransferSize = 2
        /\ sess[a].ret.totalTransferSize = 2

\* C13: a timeout of the wait for the content-ready selector does not fail the
\* trial: the timeout is caught (the warning is logged), the trial waits the grace
\* delay, then goes on to read its metrics with performanceMetrics not null, and
\* it is recorded as a successful trial when the metric reads succeed.
C13_SelectorTimeoutDegrades ==
    /\ [](\A a \in Apps :
            LET s == sess[a] IN
            /\ s.pc = "grace" => (s.i + 1) \in s.timeouts /\ s.performanceMetrics # NULL
            /\ (s.pc = "returned" /\ s.errors = 0) =>
                  /\ s.ret # NULL /\ s.ret.iterations = s.iterations
                  /\ \A t \in s.timeouts : s.truth[t].trial = t /\ s.truth[t].graced)
    /\ [][\A a \in Apps :
            /\ (sess[a].pc = "waitForSelector" /\ sess'[a].pc # "waitForSelector")
                  => /\ sess'[a].pc \in {"grace", "evalTiming"}
                     /\ sess'[a].errors = sess[a].errors
                     /\ sess'[a].performanceMetrics # NULL
            /\ (sess[a].pc = "grace" /\ sess'[a].pc # "grace")
                  => /\ sess'[a].pc = "evalTiming"
                     /\ sess'[a].errors = sess[a].errors
                     /\ sess'[a].performanceMetrics # NULL]_vars

C13_Witness ==
    /\ sess[RR].pc = "returned"
    /\ sess[RR].timeouts = {1, 3}
    /\ sess[RR].ret # NULL
    /\ sess[RR].ret.iterations = 3
    /\ sess[RR].truth[1].graced /\ ~sess[RR].truth[2].graced /\ sess[RR].truth[3].graced

\* The session of 3 trials has ended, the selector wait timed out on trial 2
\* only, and trials 1 and 3 succeeded.
TimeoutOnTrialTwo(s) ==
    /\ s.pc \in {"returned", "thrown"}
    /\ s.iterations = 3
    /\ s.timeouts = {2}
    /\ \A t \in {1, 3} : \E j \in 1..Len(s.truth) : s.truth[j].trial = t

C17_BrowserLifecycle ==
    \A a \in Apps :
        LET s == sess[a] IN
        /\ s.page = "open" => s.browser = "open"
        /\ (s.pc \in {"returned", "thrown"} /\ s.browser # "none") =>
              /\ s.browser = "closed"
              /\ s.page # "open"
              /\ s.started = s.iterations

\* The four candidates for totalLoadTime, in their order: undefined where a
\* field of the navigation entry it needs is missing.
Candidates(t) ==
    LET e == t.perfData
        Minus(end, start) ==
            IF end = UNDEFINED \/ start = UNDEFINED THEN UNDEFINED
            ELSE Num(end.value - start.value)
    IN <<e.duration,
         Minus(e.loadEventEnd, e.navigationStart),
         Minus(e.domContentLoadedEventEnd, e.navigationStart),
         Num(t.actualLoadTime)>>

\* A candidate that is present and strictly positive.
Usable(c) == c # UNDEFINED /\ c.value > 0

\* C15: the totalLoadTime recorded for a trial is the first of the candidates
\* navigation duration, loadEventEnd - navigationStart,
\* domContentLoadedEventEnd - navigationStart and wall-clock time that is present
\* and strictly positive; no missing, zero or negative candidate is recorded
\* while a later candidate is positive.
C15_FirstPositiveCandidate ==
    timing.pc = "recorded" =>
        LET c == Candidates(timing) IN
        /\ \A k \in 1..4 :
              (Usable(c[k]) /\ \A j \in 1..(k - 1) : ~Usable(c[j]))
                  => timing.totalLoadTime = c[k].value
        /\ (\E k \in 1..4 : Usable(c[k])) => timing.totalLoadTime > 0

\* C16: the paint capture yields one result under every interleaving of the FCP
\* observer, the LCP observer and the timer.  Once both metrics have been seen
\* the result is fixed; if that happened before the timer fired the result was
\* fixed by the second of them and holds the values seen at that moment; otherwise
\* it was fixed by the timer (with the warning) and holds every value seen and 0
\* for every missing one; once fixed, no later callback changes it.
C16_PaintRaceOneResult ==
    /\ [](LET v == vitals IN
          /\ (v.lcp # UNDEFINED /\ v.fcp # UNDEFINED) => v.resolved # NULL
          /\ v.timer = "fired" => v.resolved # NULL
          /\ v.resolved = NULL <=> v.fixedBy = "none"
          /\ v.fixedBy = "observers" =>
                /\ v.seen.lcp # UNDEFINED /\ v.seen.fcp # UNDEFINED
                /\ v.resolved = [largestContentfulPaint |-> v.seen.lcp.value,
                                 firstContentfulPaint |-> v.seen.fcp.value]
          /\ v.fixedBy = "timer" =>
                /\ v.seen.lcp = UNDEFINED \/ v.seen.fcp = UNDEFINED
                /\ v.timer = "fired" /\ v.warned
                /\ v.resolved =
                      [largestContentfulPaint |->
                           IF v.seen.lcp = UNDEFINED THEN 0 ELSE v.seen.lcp.value,
                       firstContentfulPaint |->
                           IF v.seen.fcp = UNDEFINED THEN 0 ELSE v.seen.fcp.value]
          /\ v.resolved # NULL => v.resolved = WebVitals(v.seen))
    /\ [][vitals.resolved # NULL =>
              /\ vitals'.resolved = vitals.resolved
              /\ vitals'.fixedBy = vitals.fixedBy]_vars

\* Both paints were seen, the result was fixed at 1200 ms; a later LCP entry of
\* 1500 ms and the timer came after it.
C16_Witness ==
    /\ vitals.fixedBy = "observers"
    /\ vitals.timer = "fired"
    /\ vitals.lcp = Num(1500)
    /\ vitals.resolved = [largestContentfulPaint |-> 1200, firstContentfulPaint |-> 800]

\* The frames of a session that is running its loop.
InLoop == {"newPage", "setCacheEnabled", "createCDPSession", "networkEnable",
           "performanceEnable", "goto", "waitForSelector", "grace", "evalTiming",
           "evalVitals", "closePage", "closeBrowser"}

\* C18: under every interleaving of the two sessions, at most one trial of an app
\* is in progress (a trial starts only when every earlier trial of that app has
\* finished and its page is closed), trials of different apps may overlap, and a
\* response received on the page of one app changes nothing in the session of the
\* other app.
C18_TrialsSequentialPerApp ==
    /\ [](\A a \in Apps :
            LET s == sess[a] IN
            s.pc \in InLoop =>
                /\ s.started - s.i \in {0, 1}
                /\ s.page = "open" <=> s.started = s.i + 1
                /\ Len(s.results) <= s.i)
    /\ [][\A a \in Apps :
            /\ sess'[a].started > sess[a].started
                  => /\ sess[a].started = sess[a].i
                     /\ sess[a].page # "open"
                     /\ sess'[a].started = sess[a].started + 1
            /\ BagCardinality(sess'[a].sent) > BagCardinality(sess[a].sent)
                  => /\ sess'[Other(a)] = sess[Other(a)]
                     /\ sess'[a].results = sess[a].results]_vars

\* Trial 2 of one app and trial 1 of the other are in progress together; the
\* first has received a response, the second none.
C18_Witness ==
    /\ sess[RR].pc \in Navigated /\ sess[RR].page = "open" /\ sess[RR].started = 2
    /\ sess[TS].pc \in Navigated /\ sess[TS].page = "open" /\ sess[TS].started = 1
    /\ sess[RR].acc.networkRequests = 1
    /\ sess[TS].acc.networkRequests = 0

\* The files of the history directory.
HistoryFiles == {f \in fs : f.path # LatestPath}

\* C19: after any sequence of saveResults calls, reports saved at different
\* timestamps are in different history files, a report whose timestamp no other
\* save shares is still in its file as it was saved, there is one history file
\* per timestamp, the latest file holds the most recent report, and no step
\* changes or removes a history file other than the one of the running save.
C19_HistoryNeverOverwritten ==
    /\ [](mainPc \in {"returned", "exited"} =>
            LET n == Len(saves)
                stamp == [k \in 1..n |-> saves[k].data.timestamp]
                path == [k \in 1..n |-> HistoryPath(FileSafe(stamp[k]))]
            IN /\ \A i, j \in 1..n : stamp[i] # stamp[j] => path[i] # path[j]
               /\ \A i \in 1..n :
                     (\A j \in 1..n : j # i => stamp[j] # stamp[i])
                         => [path |-> path[i], data |-> saves[i].data] \in fs
               /\ Cardinality(HistoryFiles) = Cardinality({stamp[k] : k \in 1..n})
               /\ n > 0 =>
                     {f \in fs : f.path = LatestPath}
                         = {[path |-> LatestPath, data |-> saves[n].data]})
    /\ [][\A f \in HistoryFiles : f.path # HistoryPath(timestamp) => f \in fs']_vars

\* Three reports saved at three timestamps: three history files.
C19_Witness ==
    /\ mainPc = "exited"
    /\ Len(saves) = 3
    /\ Cardinality(HistoryFiles) = 3
    /\ saves[1].data.timestamp # saves[3].data.timestamp
    /\ [path |-> HistoryPath(saves[1].timestamp), data |-> saves[1].data] \in fs
    /\ [path |-> LatestPath, data |-> saves[3].data] \in fs

\* The two halves of a report, one per app.
Sides(d) == {d.reactRouter, d.tanstackRouter}

\* C20: in every persisted report a measurement that was not obtained is null
\* and never the number 0.  No page of SpecReport paints at 0 ms and no
\* navigation takes 0 ms, so a 0 in a report can only stand for a gap: the
\* report holds no 0 as a paint metric of a trial, as a mean of a paint metric,
\* or as a navigation time.
C20_GapsAreNullNotZero ==
    \A f \in fs : \A side \in Sides(f.data) :
        /\ side.navigation # Num(0)
        /\ side.pageLoad # NULL =>
              /\ side.pageLoad.iterations > 0
              /\ \A j \in 1..Len(side.pageLoad.rawResults) :
                    /\ side.pageLoad.rawResults[j].largestContentfulPaint # 0
                    /\ side.pageLoad.rawResults[j].firstContentfulPaint # 0
              /\ side.pageLoad.largestContentfulPaint # RatInt(0)
              /\ side.pageLoad.firstContentfulPaint # RatInt(0)

\* The step delivers the response r to the page of app a.
Received(a, r) == sess'[a].sent = sess[a].sent (+) SetToBag({r})

\* C22: in a trial no response is received before the listener is attached and
\* the navigation issued; from then on every response received on the page adds
\* one to the request count, its bytes to the total, and its bytes to at most one
\* of the JS and CSS buckets, so jsSize + cssSize <= totalTransferSize throughout.
C22_ListenerCountsEveryResponseOnce ==
    /\ [](\A a \in Apps :
            LET s == sess[a] IN
            /\ s.pc \in {"newPage", "setCacheEnabled", "createCDPSession",
                          "networkEnable", "performanceEnable"} => s.sent = EmptyBag
            /\ s.pc \in Navigated =>
                  /\ s.acc.jsSize + s.acc.cssSize <= s.acc.totalTransferSize
                  /\ s.page = "open" => s.acc.networkRequests = BagCardinality(s.sent))
    /\ [][\A a \in Apps : \A r \in Responses :
            Received(a, r) =>
                LET old == sess[a].acc
                    new == sess'[a].acc
                    js == new.jsSize - old.jsSize
                    css == new.cssSize - old.cssSize
                IN /\ new.networkRequests = old.networkRequests + 1
                   /\ new.totalTransferSize = old.totalTransferSize + r.encodedDataLength
                   /\ <<js, css>> \in {<<0, 0>>, <<r.encodedDataLength, 0>>,
                                        <<0, r.encodedDataLength>>}]_vars

\* A script of 1 byte and a document of 4 bytes have been received.
C22_Witness ==
    \E a \in Apps :
        /\ sess[a].pc \in Navigated /\ sess[a].page = "open"
        /\ sess[a].sent = SetToBag({JsBundle, Document})
        /\ sess[a].acc = [networkRequests |-> 2, totalTransferSize |-> 5,
                          jsSize |-> 1, cssSize |-> 0]

\* The metrics of the running trial have been captured.
Captured(s) == s.pc = "closePage" /\ s.performanceMetrics # NULL

\* C23: the metrics of a trial are fixed when they are captured: a response that
\* arrives on the page afterwards changes the accumulators only, neither the
\* captured metrics nor any stored result, and what is stored for a trial is what
\* its page had received at the capture.
C23_RunMetricsFixedAtCapture ==
    /\ [](\A a \in Apps :
            LET s == sess[a] IN
            Captured(s) => Matches(s.performanceMetrics, s.truth[Len(s.truth)]))
    /\ [][\A a \in Apps : \A r \in Responses :
            Received(a, r) =>
                /\ sess'[a].performanceMetrics = sess[a].performanceMetrics
                /\ sess'[a].results = sess[a].results
                /\ sess'[a].truth = sess[a].truth]_vars

\* The capture counted one response; a second one arrived before page.close().
C23_Witness ==
    \E a \in Apps :
        /\ Captured(sess[a]) /\ sess[a].page = "open"
        /\ sess[a].performanceMetrics.networkRequests = 1
        /\ sess[a].acc.networkRequests = 2

\* The navigationWinner field of the report; null also where no comparison is built.
PersistedNavigationWinner ==
    IF performanceData.comparison = NULL THEN NoName
    ELSE performanceData.comparison.navigationWinner

\* C24: the persisted navigationWinner names the app with the strictly lower
\* navigation time whenever both navigation measurements succeeded, whatever the
\* page-load results, and is null exactly when a navigation time is null.
C24_NavigationWinnerPersisted ==
    performanceData # NULL =>
        /\ PersistedNavigationWinner = NoName <=> \E a \in Apps : navTime[a] = NULL
        /\ \A a \in Apps :
              (navTime[a] # NULL /\ navTime[Other(a)] # NULL
                 /\ navTime[a].value < navTime[Other(a)].value)
                  => PersistedNavigationWinner = a

\* C27: for every pair of non-null metrics, equal means included, the load-time
\* and transfer-size winners that displayResults prints are the loadTimeWinner and
\* transferSizeWinner of the report.
C27_ConsoleWinnersArePersisted ==
    (performanceData # NULL /\ metrics[RR] # NULL /\ metrics[TS] # NULL) =>
        /\ console.loadTimeWinner = performanceData.comparison.loadTimeWinner
        /\ console.transferWinner = performanceData.comparison.transferSizeWinner

\* C29: every browser launched by measurePagePerformance or by
\* measureNavigationPerformance has been closed when the call ends, whether it
\* returns metrics, returns null or ends by an error raised after the launch.
C29_LaunchedBrowserClosed ==
    \A a \in Apps :
        /\ (sess[a].pc \in {"returned", "thrown"} /\ sess[a].browser # "none")
               => sess[a].browser = "closed"
        /\ (nav[a].pc \in {"returned", "thrown"} /\ nav[a].browser # "none")
               => nav[a].browser = "closed"

\* C28: for every maxRetries >= 0 a waitForServer call completes either by
\* returning true after an attempt that got a response, or by throwing after
\* maxRetries failed attempts; it never completes normally without a response.
C28_ReadyOnlyAfterResponse ==
    \A a \in Apps :
        LET p == probe[a] IN
        /\ p.pc \in {"ready", "undefined"} =>
              p.pc = "ready" /\ AttemptResolves(p.last) /\ p.attempts >= 1
        /\ p.pc = "failed" => ~AttemptResolves(p.last) /\ p.attempts = p.maxRetries

\* The content of the file at a path; NULL when there is no such file.
Content(path) ==
    IF \E f \in fs : f.path = path
    THEN (CHOOSE f \in fs : f.path = path).data
    ELSE NULL

\* C30: after any sequence of completed saveResults calls the latest file holds
\* what the most recently written history file holds; within a save the latest
\* file is written first and the history file second, nothing else is written,
\* and between the two writes the latest file already holds the report being
\* saved, so no history file is newer than the latest file.
C30_LatestIsNewestHistory ==
    /\ (mainPc \in {"returned", "exited"} /\ saves # <<>>) =>
          LET last == saves[Len(saves)] IN
          /\ writes = <<LatestPath, HistoryPath(last.timestamp)>>
          /\ Content(LatestPath) # NULL
          /\ Content(LatestPath) = Content(HistoryPath(last.timestamp))
          /\ Content(LatestPath) = last.data
    /\ mainPc = "saveLatest" => writes = <<>>
    /\ mainPc = "saveHistory" =>
          /\ writes = <<LatestPath>>
          /\ Content(LatestPath) = performanceData
    /\ \A f \in HistoryFiles : \E k \in 1..Len(saves) : f.data = saves[k].data

\* Two saves of different reports at the same timestamp: the history file of the
\* first save was overwritten by the second, and the latest file matches it.
C30_Witness ==
    /\ mainPc = "exited"
    /\ Len(saves) = 2
    /\ saves[1].timestamp = saves[2].timestamp
    /\ saves[1].data # saves[2].data
    /\ Content(LatestPath) = saves[2].data
    /\ Content(HistoryPath(saves[2].timestamp)) = saves[2].data

\* C21: every run terminates.  While the process has not exited it is never
\* stuck in a wait that nothing ends: a step is possible, because every probe
\* attempt, navigation, selector wait and paint wait settles when its timeout
\* fires at the latest; and the process eventually exits, with code 0 or 1.
C21_RunTerminates ==
    /\ [](exitCode = "none" => ENABLED NextControl)
    /\ <>(exitCode \in {"0", "1"})

\* A run that exits after the probe of an app ran into its request timeout on
\* every attempt.
C21_Witness ==
    \E a \in Apps :
        /\ exitCode = "1"
        /\ probe[a].pc = "failed"
        /\ probe[a].last.kind = "timeout"
        /\ probe[a].attempts = probe[a].maxRetries

\* C25: the servers main of scripts/performance-full.js has spawned are always
\* cleaned up: whenever the process has ended, after a complete run or after a
\* failure of the build, of the server start-up, of the benchmark or of the
\* analysis, stopServers has run to its end and no spawned server is running.
C25_ServersAlwaysStopped ==
    full.exitCode # "none" =>
        /\ full.stopped
        /\ \A a \in Servers : full.os[a] # "running"

\* TanStack Router has the better mean of a compared metric: the lower one of a
\* Lighthouse metric, the higher performance score.
TanStackBetter(k) ==
    IF k = "performanceScore"
    THEN analysis.tanstackRouter[k].value > analysis.reactRouter[k].value
    ELSE analysis.tanstackRouter[k].value < analysis.reactRouter[k].value

\* C26: in the summary of the analysis every counted comparison is credited to
\* exactly one router, and TanStack Router is credited with a metric only when
\* its mean is the better one: lower for fcp, lcp, cls, tbt, tti and si, higher
\* for the performance score.
C26_WinsCreditedToBetterMean ==
    (analysis.pc = "displayed" /\ analysis.summary # NULL) =>
        /\ analysis.summary.tanstackWins + analysis.summary.reactWins
              = analysis.summary.totalComparisons
        /\ analysis.summary.tanstackWins
              = Cardinality(TanStackCredited(analysis.improvements))
        /\ \A k \in TanStackCredited(analysis.improvements) : TanStackBetter(k)

====
